---- MODULE Spec2Model ----
(***************************************************************************)
(* A model of github.com/adamluzsi/otelkit:                                *)
(*   - FakeSpanExporter (testing.go): a mutex-guarded slice of spans,      *)
(*     with ExportSpans, ExportedSpans, Shutdown and Pretty,               *)
(*   - HTTPRoundTripper.RoundTrip (http.go): client span around a call,    *)
(*   - HTTPMiddlewareNoTracingWarning.ServeHTTP + spyHeaderCarrier,        *)
(*   - HTTPMiddlewareWithContext.ServeHTTP,                                *)
(*   - ContextWithBaggage,                                                 *)
(*   - a server whose handler calls a downstream server (TestHighLevel),   *)
(*   - Stub (testing.go): the global tracer provider and its cleanups.     *)
(* Requests are pointers into a store of request structs, URLs, header     *)
(* maps and body readers, so that WithContext and Clone differ.            *)
(* Goroutines are the processes Procs; every goroutine runs one call at a  *)
(* time, one step per action.  Go slices are modelled as slice headers     *)
(* (arr, len, cap) over a heap of backing arrays, so that aliasing and     *)
(* in-place appends are visible.                                           *)
(***************************************************************************)
EXTENDS Integers, Sequences, FiniteSets, TLC

\* ------------------------------------------------------------------ bounds
\* number of goroutines
NumProcs == 2
\* total number of top-level calls the goroutines start
MaxCalls == 3
\* largest batch handed to one ExportSpans call
MaxBatch == 2
\* total number of RoundTrip calls the callers start
MaxRoundTrips == 2
\* number of requests the middleware serves
MaxRequests == 2
\* largest number of items handed to one ContextWithBaggage call
MaxItems == 3
\* number of ContextWithBaggage calls made one after the other
MaxBaggageCalls == 2
\* number of Stub calls of one test
MaxStubs == 2
\* number of Get calls made on one spyHeaderCarrier
MaxGets == 3

Procs == 1..NumProcs

VARIABLES
  heap,      \* backing arrays: heap[a] is a sequence of cells, Len = capacity
  spans,     \* FakeSpanExporter.spans: a slice header [arr, len, cap]
  m,         \* FakeSpanExporter.m: 0 when unlocked, else the holder
  nextID,    \* the SDK id generator: the next fresh trace/span id
  pc,        \* pc[p]: where goroutine p is
  retpc,     \* retpc[p]: where ExportSpans returns to in p
  arg,       \* arg[p]: the spans argument of p's ExportSpans call
  tmp,       \* tmp[p]: the slice header p read from exp.spans
  snap,      \* snap[p]: the slice header ExportedSpans returned to p
  calls,     \* number of top-level calls started so far
  cfg,       \* the HTTPRoundTripper value: its SpanNameFn field
  rt,        \* rt[p]: the locals and the history of p's RoundTrip call
  mw,        \* the locals and the history of the ServeHTTP call being served
  wc,        \* the same for the ServeHTTP call of HTTPMiddlewareWithContext
  bg,        \* the locals and the history of the ContextWithBaggage call
  gl,        \* the global tracer provider and the Stub calls of a test
  spy,       \* a spyHeaderCarrier and the Get calls made on it
  harness,   \* which part of the package the behaviour exercises
  called,    \* history: span ids handed to ExportSpans calls that started
  returned,  \* history: span ids handed to ExportSpans calls that returned
  snapInfo,  \* history: per goroutine, facts recorded when its snapshot was taken
  hist       \* history: what ExportSpans, Shutdown and Pretty returned and saw

expVars  == <<heap, spans, m>>
histVars == <<called, returned, snapInfo, hist>>
rtVars   == <<cfg, rt>>
mwVars   == <<mw, wc, bg, gl, spy>>
goVars   == <<heap, spans, m, nextID, pc, retpc, arg, tmp, snap, calls, cfg, rt,
             called, returned, snapInfo, hist, harness, bg, gl, spy>>
vars == <<heap, spans, m, nextID, pc, retpc, arg, tmp, snap, calls, cfg, rt, mw, wc, bg, harness,
          called, returned, snapInfo, hist, gl, spy>>

\* ------------------------------------------------------------- Go slices
\* the zero value of an interface cell
NilSpan == [sid |-> 0, tid |-> 0, parent |-> 0, name |-> "", kind |-> "", attrs |-> <<>>,
            tracer |-> "", events |-> <<>>]

\* a nil slice / the empty literal []T{}: no backing array
NilSlice == [arr |-> 0, len |-> 0, cap |-> 0]

\* the elements visible through slice header s
View(h, s) == IF s.len = 0 THEN <<>> ELSE SubSeq(h[s.arr], 1, s.len)

\* runtime.growslice: the capacity of the array append allocates
GrowCap(oldCap, needed) == IF needed > 2 * oldCap THEN needed ELSE 2 * oldCap

\* append(s, elems...): the heap and the slice header after the call
GoAppend(h, s, elems) ==
  LET n == s.len + Len(elems) IN
  IF Len(elems) = 0 THEN [heap |-> h, slice |-> s]
  ELSE IF n <= s.cap
    THEN [heap  |-> [h EXCEPT ![s.arr] =
                       [i \in 1..s.cap |->
                          IF i > s.len /\ i <= n THEN elems[i - s.len] ELSE @[i]]],
          slice |-> [s EXCEPT !.len = n]]
    ELSE LET c == GrowCap(s.cap, n)
             a == Len(h) + 1
             cells == [i \in 1..c |->
                         IF i <= s.len THEN h[s.arr][i]
                         ELSE IF i <= n THEN elems[i - s.len] ELSE NilSpan]
         IN [heap |-> Append(h, cells), slice |-> [arr |-> a, len |-> n, cap |-> c]]

\* ------------------------------------------------------------ sync.Mutex
\* a Lock that does not wait for the holder: what ExportSpans would be without
\* mutual exclusion
MutexLockNoExclusion(p) == m' = p

\* exp.m.Lock(): blocks until the mutex is free
MutexLock(p) == m = 0 /\ m' = p

\* exp.m.Unlock()
MutexUnlock(p) == m' = 0

\* ------------------------------------------------------ SDK span records
\* a finished span as the SDK hands it to the exporter: its ids, name, kind and
\* attributes, the name of the tracer (instrumentation scope) that started it
\* and the events added to it
MakeSpan(sid, tid, parent, name, kind, attrs, tracer, events) ==
  [sid |-> sid, tid |-> tid, parent |-> parent, name |-> name, kind |-> kind,
   attrs |-> attrs, tracer |-> tracer, events |-> events]

\* the spans a tracer user ends directly:
\* tp.Tracer("TracerName").Start(ctx, "SpanName"); span.AddEvent("EventName"); span.End()
Batch(first, n) ==
  [i \in 1..n |-> MakeSpan(first + i - 1, first + i - 1, 0, "SpanName", "internal", <<>>,
                           "TracerName", <<"EventName">>)]

SidsOf(seq) == {seq[i].sid : i \in 1..Len(seq)}

\* ExportSpans calls that were called and have not returned
ExportInFlight == {p \in Procs : pc[p] \in {"es_lock", "es_read", "es_write", "es_unlock"}}

\* --------------------------------------- FakeSpanExporter.ExportSpans
\* a goroutine calls exp.ExportSpans(ctx, batch) with n freshly ended spans
CallExportSpans(p, n) ==
  /\ pc[p] = "idle"
  /\ calls < MaxCalls
  /\ calls' = calls + 1
  /\ arg' = [arg EXCEPT ![p] = Batch(nextID, n)]
  /\ nextID' = nextID + n
  /\ called' = called \cup SidsOf(arg'[p])
  /\ hist' = [hist EXCEPT !.afterShutdown =
                             IF hist.shut THEN @ \cup SidsOf(arg'[p]) ELSE @]
  /\ pc' = [pc EXCEPT ![p] = "es_lock"]
  /\ retpc' = [retpc EXCEPT ![p] = "idle"]
  /\ UNCHANGED <<expVars, tmp, snap, returned, snapInfo, rtVars, mwVars, harness>>

\* exp.m.Lock()
ExportSpansLock(p) ==
  /\ pc[p] = "es_lock"
  /\ MutexLock(p)
  /\ pc' = [pc EXCEPT ![p] = "es_read"]
  /\ UNCHANGED <<heap, spans, nextID, retpc, arg, tmp, snap, calls, histVars, rtVars, mwVars, harness>>

\* the read of exp.spans in  exp.spans = append(exp.spans, spans...)
ExportSpansRead(p) ==
  /\ pc[p] = "es_read"
  /\ tmp' = [tmp EXCEPT ![p] = spans]
  /\ pc' = [pc EXCEPT ![p] = "es_write"]
  /\ UNCHANGED <<expVars, nextID, retpc, arg, snap, calls, histVars, rtVars, mwVars, harness>>

\* the append and the write of exp.spans
ExportSpansWrite(p) ==
  /\ pc[p] = "es_write"
  /\ LET r == GoAppend(heap, tmp[p], arg[p]) IN
       /\ heap' = r.heap
       /\ spans' = r.slice
  /\ pc' = [pc EXCEPT ![p] = "es_unlock"]
  /\ UNCHANGED <<m, nextID, retpc, arg, tmp, snap, calls, histVars, rtVars, mwVars, harness>>

\* return nil
ExportSpansResult == "nil"

\* the deferred exp.m.Unlock() and  return nil
ExportSpansUnlock(p) ==
  /\ pc[p] = "es_unlock"
  /\ MutexUnlock(p)
  /\ returned' = returned \cup SidsOf(arg[p])
  /\ hist' = [hist EXCEPT !.exportErrs = @ \cup {ExportSpansResult},
                          !.batches = @ \cup {arg[p]}]
  /\ pc' = [pc EXCEPT ![p] = retpc[p]]
  /\ UNCHANGED <<heap, spans, nextID, retpc, arg, tmp, snap, calls, called, snapInfo, rtVars, mwVars, harness>>

\* ------------------------------------- FakeSpanExporter.ExportedSpans
\* return exp.spans: the internal slice itself, not a copy
ExportedSpansAlias(h, s) == [heap |-> h, slice |-> s]

\* append([]traceSDK.ReadOnlySpan{}, exp.spans...)
ExportedSpansCopy(h, s) == GoAppend(h, NilSlice, View(h, s))

\* a goroutine calls exp.ExportedSpans()
CallExportedSpans(p) ==
  /\ pc[p] = "idle"
  /\ calls < MaxCalls
  /\ calls' = calls + 1
  /\ pc' = [pc EXCEPT ![p] = "xs_lock"]
  /\ UNCHANGED <<expVars, nextID, retpc, arg, tmp, snap, histVars, rtVars, mwVars, harness>>

\* exp.m.Lock()
ExportedSpansLock(p) ==
  /\ pc[p] = "xs_lock"
  /\ MutexLock(p)
  /\ pc' = [pc EXCEPT ![p] = "xs_copy"]
  /\ UNCHANGED <<heap, spans, nextID, retpc, arg, tmp, snap, calls, histVars, rtVars, mwVars, harness>>

\* the copy is built while the mutex is held
ExportedSpansBuild(p) ==
  /\ pc[p] = "xs_copy"
  /\ LET r == ExportedSpansCopy(heap, spans) IN
       /\ heap' = r.heap
       /\ snap' = [snap EXCEPT ![p] = r.slice]
       /\ snapInfo' = [snapInfo EXCEPT ![p] =
                         [taken |-> TRUE, quiet |-> ExportInFlight = {},
                          passed |-> returned, view |-> View(r.heap, r.slice)]]
       /\ hist' = [hist EXCEPT !.snaps = Append(@, View(r.heap, r.slice))]
  /\ pc' = [pc EXCEPT ![p] = "xs_unlock"]
  /\ UNCHANGED <<spans, m, nextID, retpc, arg, tmp, calls, called, returned, rtVars, mwVars, harness>>

\* the deferred exp.m.Unlock() and the return of the copy
ExportedSpansUnlock(p) ==
  /\ pc[p] = "xs_unlock"
  /\ MutexUnlock(p)
  /\ pc' = [pc EXCEPT ![p] = "idle"]
  /\ UNCHANGED <<heap, spans, nextID, retpc, arg, tmp, snap, calls, histVars, rtVars, mwVars, harness>>

\* --------------------------------------- FakeSpanExporter.Shutdown
\* a Shutdown that drops the recorded spans
ShutdownSpansCleared(s) == NilSlice

\* func (exp *FakeSpanExporter) Shutdown(ctx) error { return nil }: exp.spans
\* after the call
ShutdownSpans(s) == s

ShutdownResult == "nil"

\* a goroutine calls exp.Shutdown(ctx); the call takes no lock
Shutdown(p) ==
  /\ pc[p] = "idle"
  /\ calls < MaxCalls
  /\ calls' = calls + 1
  /\ spans' = ShutdownSpans(spans)
  /\ hist' = [hist EXCEPT !.shut = TRUE,
                          !.shutdownErrs = @ \cup {ShutdownResult},
                          !.shutdownKept = @ /\ View(heap, spans') = View(heap, spans)]
  /\ UNCHANGED <<heap, m, nextID, pc, retpc, arg, tmp, snap, called, returned, snapInfo,
                 rtVars, mwVars, harness>>

\* ----------------------------------------- FakeSpanExporter.Pretty
\* the stdouttrace exporter's rendering of the spans it is handed: one entry
\* per span, in order, with the span's name, ids, kind, attributes and events
\* and the name of the tracer that started it
PrettyText(seq) ==
  [i \in 1..Len(seq) |->
     [Name |-> seq[i].name, TraceID |-> seq[i].tid, SpanID |-> seq[i].sid,
      Parent |-> seq[i].parent, SpanKind |-> seq[i].kind,
      Attributes |-> seq[i].attrs, Events |-> seq[i].events,
      InstrumentationLibrary |-> seq[i].tracer]]

\* a Pretty that reads exp.spans without the mutex
PrettyAcquireNothing(p) == m' = m

\* exp.m.Lock() in Pretty
PrettyAcquire(p) == MutexLock(p)

\* a goroutine calls exp.Pretty(tb)
CallPretty(p) ==
  /\ pc[p] = "idle"
  /\ calls < MaxCalls
  /\ calls' = calls + 1
  /\ pc' = [pc EXCEPT ![p] = "pp_lock"]
  /\ UNCHANGED <<expVars, nextID, retpc, arg, tmp, snap, histVars, rtVars, mwVars, harness>>

\* exp.m.Lock(): from here the call holds the mutex
PrettyLock(p) ==
  /\ pc[p] = "pp_lock"
  /\ PrettyAcquire(p)
  /\ hist' = [hist EXCEPT !.pretty[p] = [done |-> FALSE, present |-> View(heap, spans),
                                         text |-> <<>>, after |-> <<>>, failed |-> FALSE]]
  /\ pc' = [pc EXCEPT ![p] = "pp_render"]
  /\ UNCHANGED <<heap, spans, nextID, retpc, arg, tmp, snap, calls, called, returned,
                 snapInfo, rtVars, mwVars, harness>>

\* prettyPrintExporter(tb, buf).ExportSpans(context.Background(), exp.spans):
\* the spans are rendered into buf; the exporter returns no error
PrettyRender(p) ==
  /\ pc[p] = "pp_render"
  /\ hist' = [hist EXCEPT !.pretty[p].text = PrettyText(View(heap, spans))]
  /\ pc' = [pc EXCEPT ![p] = "pp_unlock"]
  /\ UNCHANGED <<expVars, nextID, retpc, arg, tmp, snap, calls, called, returned,
                 snapInfo, rtVars, mwVars, harness>>

\* a Pretty whose Unlock is not deferred: a failed rendering leaves the call
\* with the mutex held
AfterRenderFailsNoDefer == "idle"

\* tb.Fatalf ends the call (runtime.Goexit under *testing.T, a panic or a plain
\* return under other testingTB values): the deferred Unlock runs in each case
AfterRenderFails == "pp_unlock"

\* the rendering fails: stdouttrace.New or the pretty exporter's ExportSpans
\* returns an error and tb.Fatalf is called; no text is returned
PrettyRenderFails(p) ==
  /\ pc[p] = "pp_render"
  /\ hist' = [hist EXCEPT !.pretty[p].failed = TRUE,
                          !.pretty[p].done = AfterRenderFails = "idle"]
  /\ pc' = [pc EXCEPT ![p] = AfterRenderFails]
  /\ UNCHANGED <<expVars, nextID, retpc, arg, tmp, snap, calls, called, returned,
                 snapInfo, rtVars, mwVars, harness>>

\* the deferred exp.m.Unlock() and  return buf.String()
PrettyUnlock(p) ==
  /\ pc[p] = "pp_unlock"
  /\ MutexUnlock(p)
  /\ hist' = [hist EXCEPT !.pretty[p].done = TRUE, !.pretty[p].after = View(heap, spans)]
  /\ pc' = [pc EXCEPT ![p] = "idle"]
  /\ UNCHANGED <<heap, spans, nextID, retpc, arg, tmp, snap, calls, called, returned,
                 snapInfo, rtVars, mwVars, harness>>

\* the goroutines between Lock and Unlock of exp.m
InCriticalSection ==
  {p \in Procs : pc[p] \in {"es_read", "es_write", "es_unlock", "xs_copy", "xs_unlock",
                            "pp_render", "pp_unlock"}}

\* ------------------------------------------------- trace contexts
\* trace.SpanContext; the zero value is the invalid span context
EmptySC == [tid |-> 0, sid |-> 0, flags |-> 0, remote |-> FALSE, ts |-> <<>>]

\* trace.SpanContext.IsValid: both identifiers are non-zero
IsValid(sc) == sc.tid # 0 /\ sc.sid # 0

\* ------------------------------------------------------- http.Header
\* the keys a header map of the model can hold; "traceparent" is a key that
\* only a direct write to the map creates (Set, Get and the server canonicalise)
HeaderKeys == {"Traceparent", "Tracestate", "traceparent"}

\* the empty string, as a header value
NoValue == <<>>

EmptyHeader == [k \in HeaderKeys |-> NoValue]

\* textproto.CanonicalMIMEHeaderKey
CanonicalKey(k) ==
  CASE k = "traceparent" -> "Traceparent"
    [] k = "tracestate"  -> "Tracestate"
    [] OTHER -> k

\* propagation.HeaderCarrier.Get = http.Header.Get
HeaderGet(h, key) == h[CanonicalKey(key)]

\* propagation.HeaderCarrier.Set = http.Header.Set
HeaderSet(h, key, v) == [h EXCEPT ![CanonicalKey(key)] = v]

\* ------------------------------------- propagation.TraceContext
\* the traceparent value "00-<trace id>-<span id>-<flags>", as its four fields
FormatTraceparent(sc) == <<0, sc.tid, sc.sid, sc.flags % 2>>

\* TraceContext.Inject: nothing for an invalid span context; else tracestate is
\* set when the span context carries a trace state, and traceparent is set
Inject(sc, h) ==
  IF IsValid(sc)
    THEN HeaderSet(IF sc.ts # NoValue THEN HeaderSet(h, "tracestate", sc.ts) ELSE h,
                   "traceparent", FormatTraceparent(sc))
    ELSE h

\* TraceContext.extract, up to its read of tracestate: the value has the four
\* fields, a version below ff, non-zero ids and, for version 00, flags <= 2
TraceparentParses(v) ==
  /\ Len(v) = 4
  /\ v[1] <= 254
  /\ v[2] # 0
  /\ v[3] # 0
  /\ ~(v[1] = 0 /\ v[4] > 2)

\* TraceContext.extract on a raw traceparent and a raw tracestate value: the
\* span context is remote, keeps the sampled flag only and carries the trace
\* state read from the carrier
ParseTraceparent(v, state) ==
  IF TraceparentParses(v)
    THEN [tid |-> v[2], sid |-> v[3], flags |-> v[4] % 2, remote |-> TRUE, ts |-> state]
    ELSE EmptySC

\* trace.SpanContextFromContext(Propagator.Extract(context.Background(), carrier))
Extract(h) == ParseTraceparent(HeaderGet(h, "traceparent"), HeaderGet(h, "tracestate"))

\* ------------------------------------------------- *http.Request
Methods == {"GET", "POST"}

\* url.URL.String
URLString(u) ==
  (IF u.scheme # "" THEN <<u.scheme, ":">> ELSE <<>>)
  \o (IF u.scheme # "" \/ u.host # ""
        THEN (IF u.host # "" \/ u.path # "" THEN <<"//">> ELSE <<>>)
             \o (IF u.host # "" THEN <<u.host>> ELSE <<>>)
        ELSE <<>>)
  \o (IF u.path # "" THEN <<u.path>> ELSE <<>>)

\* the header value a caller's request can already hold under Traceparent
StaleTraceparent == <<0, 0, 0, 0>>

\* the requests callers hand to RoundTrip.  Host is set by http.NewRequest from
\* the URL, and left empty or overridden by callers that build the request;
\* parent is what the request's context carries: no span, a sampled span taken
\* from inbound headers (remote), a span made by a tracer that did not sample
\* it (unsampled), or a span context with a trace id and no span id
\* (traceonly); stale: the header map already holds a traceparent value
Requests ==
  { [method |-> "GET",  url |-> [scheme |-> "http",  host |-> "example.com", path |-> "/a"],
     host |-> "example.com", parent |-> "none", stale |-> FALSE],
    [method |-> "POST", url |-> [scheme |-> "https", host |-> "example.com", path |-> "/a"],
     host |-> "other.test", parent |-> "remote", stale |-> FALSE],
    [method |-> "GET",  url |-> [scheme |-> "https", host |-> "example.com", path |-> ""],
     host |-> "", parent |-> "unsampled", stale |-> TRUE],
    [method |-> "GET",  url |-> [scheme |-> "http",  host |-> "example.com", path |-> "/a"],
     host |-> "example.com", parent |-> "traceonly", stale |-> TRUE] }

\* the goroutines that call RoundTrip on the one HTTPRoundTripper value
Callers == {1, 2}

\* ------------------------------- *http.Request and what it points at
\* a request body: an io.Reader over data, read once
BodyOf(data) == [data |-> data, read |-> FALSE]

\* the objects of one ServeHTTP call: request structs, and the url.URL values,
\* header maps and body readers their fields point at (indices are addresses)
EmptyStore == [reqs |-> <<>>, urls |-> <<>>, hdrs |-> <<>>, bodies |-> <<>>]

\* httptest.NewRequest(method, url, body) with the given headers and context:
\* the request is at address 1
NewRequest(method, url, hdr, data, ctx) ==
  [reqs   |-> << [method |-> method, url |-> 1, header |-> 1, body |-> 1, ctx |-> ctx] >>,
   urls   |-> <<url>>,
   hdrs   |-> <<hdr>>,
   bodies |-> <<BodyOf(data)>>]

\* what is visible through the request pointer r
Deref(st, r) ==
  [method |-> st.reqs[r].method,
   url    |-> st.urls[st.reqs[r].url],
   header |-> st.hdrs[st.reqs[r].header],
   body   |-> st.bodies[st.reqs[r].body],
   ctx    |-> st.reqs[r].ctx]

NoDeref == [method |-> "", url |-> [scheme |-> "", host |-> "", path |-> ""],
            header |-> EmptyHeader, body |-> BodyOf(""), ctx |-> EmptySC]

\* http.Request.WithContext: a new request struct with the context changed; its
\* URL, Header and Body fields point at the same objects
RequestWithContext(st, r, ctx) ==
  [st |-> [st EXCEPT !.reqs = Append(@, [st.reqs[r] EXCEPT !.ctx = ctx])],
   r  |-> Len(st.reqs) + 1]

\* http.Request.Clone: a new request struct with the context changed, a copy of
\* the URL and a copy of the header map; the Body field points at the same reader
RequestClone(st, r, ctx) ==
  [st |-> [st EXCEPT
             !.urls = Append(@, st.urls[st.reqs[r].url]),
             !.hdrs = Append(@, st.hdrs[st.reqs[r].header]),
             !.reqs = Append(@, [st.reqs[r] EXCEPT !.ctx = ctx,
                                                   !.url = Len(st.urls) + 1,
                                                   !.header = Len(st.hdrs) + 1])],
   r  |-> Len(st.reqs) + 1]

\* what a handler can do to the request it is handed, through the pointer
HandlerEffects == {"none", "header", "url", "body", "method"}

\* the store after the handler did e to the request at r
ApplyEffect(st, r, e) ==
  CASE e = "header" -> [st EXCEPT !.hdrs[st.reqs[r].header] = HeaderSet(@, "tracestate", <<2>>)]
    [] e = "url"    -> [st EXCEPT !.urls[st.reqs[r].url].path = "/rewritten"]
    [] e = "body"   -> [st EXCEPT !.bodies[st.reqs[r].body].read = TRUE]
    [] e = "method" -> [st EXCEPT !.reqs[r].method = "PUT"]
    [] OTHER        -> st

\* ------------------------------------------------- HTTPRoundTripper
defaultSpanName == "http-request"

\* the SpanNameFn values of the model: nil, or a function of the request
SpanNameFns == {"nil", "byMethod"}

ApplySpanNameFn(fn, request) == IF request.method = "GET" THEN "get-span" ELSE "send-span"

\* a RoundTrip that ignores SpanNameFn
SpanNameAlwaysDefault(fn, request) == defaultSpanName

\* spanName := defaultSpanName; if r.SpanNameFn != nil { spanName = r.SpanNameFn(request) }
SpanName(fn, request) ==
  IF fn # "nil" THEN ApplySpanNameFn(fn, request) ELSE defaultSpanName

\* attributes with the URL's host in place of request.Host
SpanStartAttrsURLHost(request) ==
  [method |-> request.method, url |-> URLString(request.url),
   scheme |-> request.url.scheme, host |-> request.url.host]

\* trace.WithAttributes(HTTPMethodKey, HTTPURLKey, HTTPSchemeKey, HTTPHostKey)
SpanStartAttrs(request) ==
  [method |-> request.method, url |-> URLString(request.url),
   scheme |-> request.url.scheme, host |-> request.host]

\* trace.WithSpanKind(trace.SpanKindClient)
SpanStartKind == "client"

\* Tracer.Start of the SDK with its default sampler, ParentBased(AlwaysSample):
\* the span keeps the trace id of the context's span context when that has one,
\* else it starts a new trace; the ids come from the id generator.  The span is
\* sampled unless the parent is valid and not sampled; a span that is not
\* sampled does not record.  The trace state is the parent's
TracerStart(parent, id, name, kind, attrs, tracer) ==
  LET tid == IF parent.tid # 0 THEN parent.tid ELSE id
      sid == IF parent.tid # 0 THEN id ELSE id + 1
      sampled == IsValid(parent) => parent.flags % 2 = 1
  IN [sc   |-> [tid |-> tid, sid |-> sid, flags |-> IF sampled THEN 1 ELSE 0,
                remote |-> FALSE, ts |-> parent.ts],
      span |-> MakeSpan(sid, tid, parent.sid, name, kind, attrs, tracer, <<>>),
      recording |-> sampled,
      next |-> sid + 1]

\* span.End() of the SDK, called as a deferred call: nothing for a span that
\* does not record or was ended before; else the finished span the span
\* processors get, with the event "exception" when the call runs under a panic
SpanEnd(span, recording, ended, panicking) ==
  IF ~recording \/ ended THEN <<>>
  ELSE <<[span EXCEPT !.events = IF panicking THEN Append(@, "exception") ELSE @]>>

\* a span started from context.Background()
StartContextBackground(request) == EmptySC

\* r.Tracer.Start(request.Context(), ...): the context the span is started in
StartContext(request) == request.ctx

\* an Inject of request.Context(): the caller's span, not the new one
InjectedContextOfRequest(request, ctx) == request.ctx

\* r.Propagator.Inject(ctx, ...): the context whose span context is injected
InjectedContext(request, ctx) == ctx

\* what the wrapped transport can do with a request
TransportOutcomes ==
  { [panic |-> FALSE, resp |-> "200", err |-> "nil"],
    [panic |-> FALSE, resp |-> "nil", err |-> "boom"],
    [panic |-> FALSE, resp |-> "200", err |-> "boom"],
    [panic |-> TRUE,  resp |-> "nil", err |-> "nil"] }

NoOutcome == [panic |-> FALSE, resp |-> "nil", err |-> "nil"]

\* span.End() called after the transport call instead of deferred: a panic skips it
AfterNextEndOnReturnOnly(out) == IF out.panic THEN "rt_exit" ELSE "rt_end"

\* defer span.End(): the deferred call runs when Next.RoundTrip returns and
\* when it panics
AfterNext(out) == "rt_end"

\* a RoundTrip that recovers the panic and returns an error
RoundTripResultRecovered(out) ==
  IF out.panic THEN [panic |-> FALSE, resp |-> "nil", err |-> "recovered"] ELSE out

\* a RoundTrip that wraps the transport's error and drops the response
RoundTripResultWrapped(out) ==
  IF out.err # "nil" THEN [out EXCEPT !.err = "wrapped", !.resp = "nil"] ELSE out

\* return r.Next.RoundTrip(...): the transport's results, or its panic, reach
\* the caller as they are
RoundTripResult(out) == out

NoRequest == [method |-> "", url |-> [scheme |-> "", host |-> "", path |-> ""],
              host |-> "", ctx |-> EmptySC]

IdleRT == [req |-> NoRequest, hdr |-> EmptyHeader, name |-> "", ctx |-> EmptySC,
           span |-> NilSpan, recording |-> FALSE, ended |-> FALSE, out |-> NoOutcome,
           sent |-> [req |-> NoRequest, hdr |-> EmptyHeader],
           result |-> NoOutcome, nameFnCalls |-> 0, starts |-> 0, injects |-> 0,
           nexts |-> 0, ends |-> 0, done |-> FALSE,
           st |-> EmptyStore, sentr |-> 0]

\* the span context of the caller's context
ParentSC(kind, id) ==
  IF kind = "none" THEN EmptySC
  ELSE [tid |-> id, sid |-> IF kind = "traceonly" THEN 0 ELSE id + 1,
        flags |-> IF kind = "unsampled" THEN 0 ELSE 1, remote |-> kind = "remote",
        ts |-> IF kind = "remote" THEN <<1>> ELSE NoValue]

\* a goroutine calls r.RoundTrip(request); the span name is chosen
RoundTripCall(p, request) ==
  /\ pc[p] = "idle"
  /\ calls < MaxRoundTrips
  /\ calls' = calls + 1
  /\ LET req == [method |-> request.method, url |-> request.url, host |-> request.host,
                 ctx |-> ParentSC(request.parent, nextID)]
     IN rt' = [rt EXCEPT ![p] =
                 [IdleRT EXCEPT !.req = req,
                                !.hdr = IF request.stale
                                          THEN HeaderSet(EmptyHeader, "traceparent", StaleTraceparent)
                                          ELSE EmptyHeader,
                                !.st = NewRequest(req.method, req.url,
                                                  IF request.stale
                                                    THEN HeaderSet(EmptyHeader, "traceparent",
                                                                   StaleTraceparent)
                                                    ELSE EmptyHeader,
                                                  "payload", req.ctx),
                                !.name = SpanName(cfg, req),
                                !.nameFnCalls = IF cfg # "nil" THEN 1 ELSE 0]]
  /\ nextID' = IF request.parent = "none" THEN nextID ELSE nextID + 2
  /\ pc' = [pc EXCEPT ![p] = "rt_start"]
  /\ UNCHANGED <<expVars, retpc, arg, tmp, snap, cfg, histVars, mwVars, harness>>

\* ctx, span := r.Tracer.Start(request.Context(), spanName, spanStartOptions...)
\* and  defer span.End()
RoundTripStart(p) ==
  /\ pc[p] = "rt_start"
  /\ LET s == TracerStart(StartContext(rt[p].req), nextID, rt[p].name, SpanStartKind,
                          SpanStartAttrs(rt[p].req), "instrumentation")
     IN /\ rt' = [rt EXCEPT ![p].ctx = s.sc, ![p].span = s.span, ![p].starts = @ + 1,
                            ![p].recording = s.recording]
        /\ nextID' = s.next
  /\ pc' = [pc EXCEPT ![p] = "rt_inject"]
  /\ UNCHANGED <<expVars, retpc, arg, tmp, snap, calls, cfg, histVars, mwVars, harness>>

\* r.Propagator.Inject(ctx, propagation.HeaderCarrier(request.Header))
RoundTripInject(p) ==
  /\ pc[p] = "rt_inject"
  /\ LET h == Inject(InjectedContext(rt[p].req, rt[p].ctx),
                     rt[p].st.hdrs[rt[p].st.reqs[1].header])
     IN rt' = [rt EXCEPT ![p].st.hdrs[rt[p].st.reqs[1].header] = h,
                         ![p].hdr = h,
                         ![p].injects = @ + 1]
  /\ pc' = [pc EXCEPT ![p] = "rt_next"]
  /\ UNCHANGED <<expVars, nextID, retpc, arg, tmp, snap, calls, cfg, histVars, mwVars, harness>>

\* a deferred span.End() registered only after the Inject call: a panic of
\* Inject skips it
AfterInjectPanicNoDefer == "rt_exit"

\* defer span.End() stands before the Inject call, so the deferred call runs
\* when Inject panics
AfterInjectPanic == "rt_end"

\* r.Propagator.Inject panics (a propagator that faults, or a request whose
\* Header map is nil): the header map is left as it was, Next.RoundTrip is not
\* reached and the panic unwinds through the deferred call
RoundTripInjectPanics(p) ==
  /\ pc[p] = "rt_inject"
  /\ rt' = [rt EXCEPT ![p].injects = @ + 1,
                      ![p].out = [panic |-> TRUE, resp |-> "nil", err |-> "nil"]]
  /\ pc' = [pc EXCEPT ![p] = AfterInjectPanic]
  /\ UNCHANGED <<expVars, nextID, retpc, arg, tmp, snap, calls, cfg, histVars, mwVars, harness>>

\* a RoundTrip that hands the transport request.Clone(ctx): a request with its
\* own header map
SentRequestCloned(st, r, ctx) == RequestClone(st, r, ctx)

\* request.WithContext(ctx): the request handed to the transport
SentRequest(st, r, ctx) == RequestWithContext(st, r, ctx)

\* r.Next.RoundTrip(request.WithContext(ctx)) is called: the transport is handed
\* a shallow copy of the request with the new context and the same header map,
\* and RoundTrip waits in the call
RoundTripNext(p) ==
  /\ pc[p] = "rt_next"
  /\ LET w == SentRequest(rt[p].st, 1, rt[p].ctx) IN
       rt' = [rt EXCEPT ![p].sent = [req |-> [rt[p].req EXCEPT !.ctx = rt[p].ctx],
                                     hdr |-> Deref(w.st, w.r).header],
                        ![p].st = w.st,
                        ![p].sentr = w.r,
                        ![p].nexts = @ + 1]
  /\ pc' = [pc EXCEPT ![p] = "rt_wait"]
  /\ UNCHANGED <<expVars, nextID, retpc, arg, tmp, snap, calls, cfg, histVars, mwVars, harness>>

\* the transport's RoundTrip returns its results, or panics
RoundTripNextReturns(p, out) ==
  /\ pc[p] = "rt_wait"
  /\ rt' = [rt EXCEPT ![p].out = out]
  /\ pc' = [pc EXCEPT ![p] = AfterNext(out)]
  /\ UNCHANGED <<expVars, nextID, retpc, arg, tmp, snap, calls, cfg, histVars, mwVars, harness>>

\* the deferred span.End(): the SDK ends a recording span once and hands it,
\* through the simple span processor, to exporter.ExportSpans
RoundTripSpanEnd(p) ==
  /\ pc[p] = "rt_end"
  /\ rt' = [rt EXCEPT ![p].ends = @ + 1, ![p].ended = TRUE]
  /\ LET finished == SpanEnd(rt[p].span, rt[p].recording, rt[p].ended, rt[p].out.panic) IN
       IF finished = <<>>
         THEN /\ pc' = [pc EXCEPT ![p] = "rt_exit"]
              /\ UNCHANGED <<arg, retpc, called>>
         ELSE /\ arg' = [arg EXCEPT ![p] = finished]
              /\ retpc' = [retpc EXCEPT ![p] = "rt_exit"]
              /\ called' = called \cup {rt[p].span.sid}
              /\ pc' = [pc EXCEPT ![p] = "es_lock"]
  /\ UNCHANGED <<expVars, nextID, tmp, snap, calls, cfg, returned, snapInfo, hist, mwVars, harness>>

\* RoundTrip exits: its caller gets the results, or the panic
RoundTripExit(p) ==
  /\ pc[p] = "rt_exit"
  /\ rt' = [rt EXCEPT ![p].result = RoundTripResult(rt[p].out), ![p].done = TRUE]
  /\ pc' = [pc EXCEPT ![p] = "idle"]
  /\ UNCHANGED <<expVars, nextID, retpc, arg, tmp, snap, calls, cfg, histVars, mwVars, harness>>

\* httptest.NewRecorder(): the status code written and who wrote to it
NewRecorder == [code |-> 200, writers |-> <<>>]

\* StubHandler.ServeHTTP: w.WriteHeader(s.ExpectedResponseCode)
ExpectedResponseCode == 418

StubWriteHeader(rw) == [code |-> ExpectedResponseCode, writers |-> Append(rw.writers, "next")]

\* ------------------------------------------------ spyHeaderCarrier
\* a Get that only delegates and logs nothing
SpyGetSilent(s, key) == [value |-> HeaderGet(s.carrier, key), spy |-> s]

\* spyHeaderCarrier.Get: the wrapped carrier's value; an empty value logs the key
SpyGet(s, key) ==
  LET value == HeaderGet(s.carrier, key) IN
  [value |-> value,
   spy   |-> IF value = NoValue THEN [s EXCEPT !.missing = Append(@, key)] ELSE s]

\* &spyHeaderCarrier{HeaderCarrier: propagation.HeaderCarrier(h)}
NewSpy(h) == [carrier |-> h, missing |-> <<>>, gets |-> <<>>]

\* a caller, such as a propagator's Extract, calls s.Get(key)
SpyGetCall(key) ==
  /\ Len(spy.gets) < MaxGets
  /\ LET g == SpyGet(spy, key) IN
       spy' = [g.spy EXCEPT !.gets = Append(@, [key |-> key, value |-> g.value])]
  /\ UNCHANGED <<expVars, nextID, pc, retpc, arg, tmp, snap, calls, rtVars, histVars,
                 harness, mw, wc, bg, gl>>

\* mw.Propagator.Extract(context.Background(), spy): TraceContext asks the
\* carrier for traceparent and, once that parses, for tracestate
SpyExtract(s) ==
  LET g == SpyGet(s, "traceparent") IN
  IF TraceparentParses(g.value)
    THEN LET t == SpyGet(g.spy, "tracestate") IN
         [sc |-> ParseTraceparent(g.value, t.value), spy |-> t.spy]
    ELSE [sc |-> EmptySC, spy |-> g.spy]

\* ---------------------------------- HTTPMiddlewareNoTracingWarning
\* the span contexts inbound headers are injected from
InboundSCs ==
  { [tid |-> 7, sid |-> 8, flags |-> 0, remote |-> FALSE, ts |-> NoValue],
    [tid |-> 7, sid |-> 9, flags |-> 1, remote |-> TRUE, ts |-> NoValue] }

\* the header maps of inbound requests, by how they were made
InboundHeaders ==
  { [src |-> "empty", hdr |-> EmptyHeader] }
  \cup { [src |-> "injected", hdr |-> Inject(sc, EmptyHeader)] : sc \in InboundSCs }
  \cup { [src |-> "injected",
          hdr |-> HeaderSet(Inject(sc, EmptyHeader), "tracestate", <<1>>)] : sc \in InboundSCs }
  \cup { [src |-> "malformed", hdr |-> HeaderSet(EmptyHeader, "traceparent", v)] :
           v \in { <<9>>, StaleTraceparent, <<255, 7, 8, 1>>, <<0, 7, 8, 3>> } }
  \cup { [src |-> "rawkey",
          hdr |-> [EmptyHeader EXCEPT !["traceparent"] = <<0, 7, 8, 1>>]] }

\* the contexts of inbound requests: no span, or the span an instrumentation
\* layer started
InboundContexts ==
  {EmptySC, [tid |-> 5, sid |-> 6, flags |-> 1, remote |-> FALSE, ts |-> NoValue]}

\* the URLs of inbound requests
InboundURLs == {[scheme |-> "https", host |-> "example.com", path |-> "/a"]}

\* the NotifyFn values of the model: nil, or a function that keeps the events
NotifyFns == {"nil", "log"}

\* an extraction into the request's own context
ExtractParentRequestContext(ctx) == ctx

\* mw.Propagator.Extract(context.Background(), spy): the context the extraction
\* starts from
ExtractParent(ctx) == EmptySC

\* TraceContext.Extract(parent, carrier): the parent context unchanged when the
\* carrier holds no valid span context, else the parent with the remote one
ExtractInto(parent, sc) == IF IsValid(sc) THEN sc ELSE parent

\* a ServeHTTP that warns whatever the extraction returned
ShouldNotifyAlways(sp) == TRUE

\* if !sp.IsValid() { mw.notify(r, spy.MissingHeaders) }
ShouldNotify(sp) == ~IsValid(sp)

\* a ServeHTTP that forwards the request rebound to a fresh context
ForwardedRequestRebound(st, r) == RequestWithContext(st, r, EmptySC)

\* mw.Next.ServeHTTP(w, r): the request pointer handed on is r itself
ForwardedRequest(st, r) == [st |-> st, r |-> r]

IdleMW == [pc |-> "idle", fn |-> "nil", src |-> "", st |-> EmptyStore, r |-> 0,
           w |-> 0, rw |-> NewRecorder, hdr0 |-> EmptyHeader, orig |-> NoDeref,
           sp |-> EmptySC, missing |-> <<>>, events |-> <<>>, nextReqs |-> <<>>,
           effect |-> "none", served |-> 0, returns |-> 0, panicked |-> FALSE]

\* the server calls mw.ServeHTTP(w, r) on a middleware value with NotifyFn fn
ServeHTTPCall(method, url, ctx, in, fn) ==
  /\ mw.pc = "idle"
  /\ mw.served < MaxRequests
  /\ LET st == NewRequest(method, url, in.hdr, "payload", ctx) IN
       mw' = [IdleMW EXCEPT
                !.pc = "extract", !.fn = fn, !.src = in.src,
                !.st = st, !.r = 1, !.w = 1, !.orig = Deref(st, 1),
                !.hdr0 = in.hdr, !.served = mw.served]
  /\ UNCHANGED <<goVars, wc>>

\* spy := &spyHeaderCarrier{...};  sp := SpanContextFromContext(Extract(Background, spy))
ServeHTTPExtract ==
  /\ mw.pc = "extract"
  /\ LET live == Deref(mw.st, mw.r)
         e    == SpyExtract([carrier |-> live.header, missing |-> <<>>])
     IN mw' = [mw EXCEPT !.sp = ExtractInto(ExtractParent(live.ctx), e.sc),
                         !.missing = e.spy.missing, !.pc = "check"]
  /\ UNCHANGED <<goVars, wc>>

\* go mw.NotifyFn(...): ServeHTTP goes on without waiting for NotifyFn
AfterNotifyCallAsync == "next"

\* mw.NotifyFn(...) is an ordinary call: ServeHTTP waits in it
AfterNotifyCall == "notify"

\* a ServeHTTP that recovers the panic of NotifyFn and goes on to the next handler
AfterNotifyPanicRecovered == "next"

\* neither notify nor ServeHTTP defers or recovers: the panic of NotifyFn
\* leaves ServeHTTP at once
AfterNotifyPanic == "idle"

\* if !sp.IsValid() { mw.notify(r, spy.MissingHeaders) }: notify returns at once
\* when NotifyFn is nil, else calls it with the missing keys and r.Clone(r.Context())
ServeHTTPNotify ==
  /\ mw.pc = "check"
  /\ IF ShouldNotify(mw.sp) /\ mw.fn # "nil"
       THEN LET c == RequestClone(mw.st, mw.r, mw.st.reqs[mw.r].ctx) IN
              mw' = [mw EXCEPT
                       !.pc = AfterNotifyCall,
                       !.st = c.st,
                       !.events = Append(@, [missing |-> mw.missing, req |-> c.r,
                                             at |-> Deref(mw.st, mw.r)])]
       ELSE mw' = [mw EXCEPT !.pc = "next"]
  /\ UNCHANGED <<goVars, wc>>

\* NotifyFn returns, and notify with it
NotifyFnReturns ==
  /\ mw.pc = "notify"
  /\ mw' = [mw EXCEPT !.pc = "next", !.returns = @ + 1]
  /\ UNCHANGED <<goVars, wc>>

\* NotifyFn panics: the panic unwinds notify and ServeHTTP to the server
NotifyFnPanics ==
  /\ mw.pc = "notify"
  /\ mw' = [mw EXCEPT !.pc = AfterNotifyPanic, !.panicked = TRUE,
                      !.served = IF AfterNotifyPanic = "idle" THEN @ + 1 ELSE @]
  /\ UNCHANGED <<goVars, wc>>

\* mw.Next.ServeHTTP(w, r): the next handler is entered
ServeHTTPNext ==
  /\ mw.pc = "next"
  /\ LET f == ForwardedRequest(mw.st, mw.r) IN
       mw' = [mw EXCEPT !.pc = "handler",
                        !.st = f.st,
                        !.nextReqs = Append(@, [r |-> f.r, w |-> mw.w,
                                                seen |-> Deref(f.st, f.r),
                                                written |-> mw.rw.writers])]
  /\ UNCHANGED <<goVars, wc>>

\* the next handler runs: it may change the request it was handed, writes the
\* status code and returns; ServeHTTP returns after it
ServeHTTPNextReturns(e) ==
  /\ mw.pc = "handler"
  /\ mw' = [mw EXCEPT !.pc = "idle", !.served = @ + 1, !.effect = e,
                      !.st = ApplyEffect(@, mw.nextReqs[Len(mw.nextReqs)].r, e),
                      !.rw = StubWriteHeader(@)]
  /\ UNCHANGED <<goVars, wc>>

\* ------------------------------------- HTTPMiddlewareWithContext
\* a context.Context of an inbound request: its span context and the value it
\* holds under the key WithContextFn writes
Context(sc, val) == [sc |-> sc, val |-> val]

\* the contexts ServeHTTP is called with: no span, the span a server
\* instrumentation started, and a span context with a zero span id
ServerContexts ==
  { Context(EmptySC, 0),
    Context([tid |-> 5, sid |-> 6, flags |-> 1, remote |-> FALSE, ts |-> NoValue], 0),
    Context([tid |-> 5, sid |-> 0, flags |-> 1, remote |-> FALSE, ts |-> NoValue], 0) }

\* the header maps ServeHTTP is called with
ServerHeaders == {EmptyHeader} \cup {Inject(sc, EmptyHeader) : sc \in InboundSCs}

\* the WithContextFn values of the model: nil, or the tests' function
WithContextFns == {"nil", "withTraceID"}

\* context.WithValue(ctx, ctxKey{}, spanContext.TraceID())
ApplyWithContextFn(fn, ctx, sp) == [ctx EXCEPT !.val = sp.tid]

\* a ServeHTTP that calls WithContextFn for every span context
UseWithContextFnAlways(sp, fn) == fn # "nil"

\* if sp.IsValid() && mw.WithContextFn != nil
UseWithContextFn(sp, fn) == IsValid(sp) /\ fn # "nil"

\* a ServeHTTP that builds a new request from the method and the URL
WithContextRequestRebuilt(st, r, ctx) ==
  [st |-> [st EXCEPT
             !.hdrs = Append(@, EmptyHeader),
             !.bodies = Append(@, BodyOf("")),
             !.reqs = Append(@, [st.reqs[r] EXCEPT !.ctx = ctx,
                                                   !.header = Len(st.hdrs) + 1,
                                                   !.body = Len(st.bodies) + 1])],
   r  |-> Len(st.reqs) + 1]

\* r.WithContext(ctx)
WithContextRequest(st, r, ctx) == RequestWithContext(st, r, ctx)

IdleWC == [pc |-> "idle", fn |-> "nil", st |-> EmptyStore, r |-> 0, w |-> 0,
           rw |-> NewRecorder, orig |-> [NoDeref EXCEPT !.ctx = Context(EmptySC, 0)],
           ctx |-> Context(EmptySC, 0), fnCalls |-> <<>>, nextReqs |-> <<>>,
           effect |-> "none", served |-> 0, server |-> NilSpan]

\* the server calls mw.ServeHTTP(w, r) on a middleware value with WithContextFn fn
WithContextCall(method, url, ctx, hdr, fn) ==
  /\ wc.pc = "idle"
  /\ wc.served < MaxRequests
  /\ LET st == NewRequest(method, url, hdr, "payload", ctx) IN
       wc' = [IdleWC EXCEPT !.pc = "decide", !.fn = fn, !.st = st, !.r = 1, !.w = 1,
                            !.orig = Deref(st, 1), !.served = wc.served]
  /\ UNCHANGED <<goVars, mw>>

\* ctx := r.Context(); sp := trace.SpanContextFromContext(ctx);
\* if sp.IsValid() && mw.WithContextFn != nil { ctx = mw.WithContextFn(ctx, sp) }
WithContextDecide ==
  /\ wc.pc = "decide"
  /\ LET ctx == wc.st.reqs[wc.r].ctx
         sp  == ctx.sc
     IN IF UseWithContextFn(sp, wc.fn)
          THEN wc' = [wc EXCEPT !.pc = "next",
                                !.ctx = ApplyWithContextFn(wc.fn, ctx, sp),
                                !.fnCalls = Append(@, [ctx |-> ctx, sp |-> sp])]
          ELSE wc' = [wc EXCEPT !.pc = "next", !.ctx = ctx]
  /\ UNCHANGED <<goVars, mw>>

\* mw.Next.ServeHTTP(w, r.WithContext(ctx)): the next handler is entered
WithContextNext ==
  /\ wc.pc = "next"
  /\ LET f == WithContextRequest(wc.st, wc.r, wc.ctx) IN
       wc' = [wc EXCEPT !.pc = "handler",
                        !.st = f.st,
                        !.nextReqs = Append(@, [r |-> f.r, w |-> wc.w,
                                                seen |-> Deref(f.st, f.r),
                                                written |-> wc.rw.writers])]
  /\ UNCHANGED <<goVars, mw>>

\* the next handler runs: it may change the request it was handed, writes the
\* status code and returns; ServeHTTP returns after it
WithContextNextReturns(e) ==
  /\ wc.pc = "handler"
  /\ wc' = [wc EXCEPT !.pc = "idle", !.served = @ + 1, !.effect = e,
                      !.st = ApplyEffect(@, wc.nextReqs[Len(wc.nextReqs)].r, e),
                      !.rw = StubWriteHeader(@)]
  /\ UNCHANGED <<goVars, mw>>

\* ------------------------------------------------ ContextWithBaggage
\* baggage.Member; the zero value baggage.Member{} holds no data
NewMember(key, value) == [key |-> key, value |-> value, hasData |-> TRUE]

ZeroMember == [key |-> "", value |-> "", hasData |-> FALSE]

\* the items of the model: members, and functions returning (member, error)
MemberItems ==
  { [kind |-> "member", member |-> mb, err |-> "nil"] :
      mb \in {NewMember("k1", "a"), NewMember("k2", "b"), NewMember("k1", "c"), ZeroMember} }

FuncItems ==
  { [kind |-> "func", member |-> NewMember("k1", "a"), err |-> "nil"],
    [kind |-> "func", member |-> NewMember("k2", "b"), err |-> "nil"],
    [kind |-> "func", member |-> ZeroMember, err |-> "expErr"],
    [kind |-> "func", member |-> ZeroMember, err |-> "nil"] }

\* the argument lists of one call: the type parameter makes all items of a
\* call members or all of them functions
ItemLists ==
  UNION { [1..n -> MemberItems] \cup [1..n -> FuncItems] : n \in 0..MaxItems }

\* a baggage is a set of (key, value) entries, one per key
\* Baggage.SetMember: an error for a member without data, else a new baggage
\* in which the member replaces the entry of its key
SetMember(b, member) ==
  IF ~member.hasData
    THEN [b |-> b, err |-> "errInvalidMember"]
    ELSE [b   |-> {x \in b : x.key # member.key}
                    \cup {[key |-> member.key, value |-> member.value]},
          err |-> "nil"]

\* one pass of the loop body on item v: the running baggage and the error
ProcessItem(b, v) ==
  IF v.kind = "func" /\ v.err # "nil"
    THEN [b |-> b, err |-> v.err]
    ELSE SetMember(b, v.member)

\* a ContextWithBaggage that starts from an empty baggage
BaggageFresh(ctxs, ctx) == {}

\* baggage.FromContext(ctx)
BaggageFromContext(ctxs, ctx) == ctxs[ctx]

\* a failure that still returns a context with the members added so far
OnFailurePartial(ctxs, b, err) ==
  [ctxs |-> Append(ctxs, b), ctx |-> Len(ctxs) + 1, err |-> err]

\* return nil, err
OnFailure(ctxs, b, err) == [ctxs |-> ctxs, ctx |-> 0, err |-> err]

\* return baggage.ContextWithBaggage(ctx, b), nil: a new context
OnSuccess(ctxs, b) == [ctxs |-> Append(ctxs, b), ctx |-> Len(ctxs) + 1, err |-> "nil"]

\* bg.ctxs: the baggage of the contexts of the call, by address; address 1 is
\* the caller's context, address 0 the nil context
IdleBG == [pc |-> "idle", ctxs |-> << {} >>, in |-> {}, items |-> <<>>, i |-> 0,
           b |-> {}, invoked |-> <<>>, ret |-> [ctx |-> 0, err |-> "nil"],
           calls |-> 0]

\* ContextWithBaggage(ctx, items...) is called with the caller's context: the
\* context a successful call returned last, when there is one;
\* b := baggage.FromContext(ctx)
BaggageCall(items) ==
  /\ bg.pc = "idle"
  /\ bg.calls < MaxBaggageCalls
  /\ LET cur == IF bg.ret.ctx # 0 THEN bg.ctxs[bg.ret.ctx] ELSE bg.ctxs[1] IN
       bg' = [IdleBG EXCEPT !.pc = "loop", !.ctxs = <<cur>>, !.in = cur,
                            !.items = items, !.i = 1,
                            !.b = BaggageFromContext(<<cur>>, 1),
                            !.calls = bg.calls + 1]
  /\ UNCHANGED <<expVars, nextID, pc, retpc, arg, tmp, snap, calls, rtVars, histVars,
                 harness, mw, wc, gl, spy>>

\* one iteration of  for _, v := range CorrelationContextData
BaggageItem ==
  /\ bg.pc = "loop"
  /\ bg.i <= Len(bg.items)
  /\ LET v == bg.items[bg.i]
         o == ProcessItem(bg.b, v)
         inv == IF v.kind = "func" THEN Append(bg.invoked, bg.i) ELSE bg.invoked
     IN IF o.err # "nil"
          THEN LET f == OnFailure(bg.ctxs, bg.b, o.err) IN
                 bg' = [bg EXCEPT !.pc = "idle", !.invoked = inv, !.ctxs = f.ctxs,
                                  !.ret = [ctx |-> f.ctx, err |-> f.err]]
          ELSE bg' = [bg EXCEPT !.b = o.b, !.i = @ + 1, !.invoked = inv]
  /\ UNCHANGED <<expVars, nextID, pc, retpc, arg, tmp, snap, calls, rtVars, histVars,
                 harness, mw, wc, gl, spy>>

\* the loop is over: return baggage.ContextWithBaggage(ctx, b), nil
BaggageReturn ==
  /\ bg.pc = "loop"
  /\ bg.i > Len(bg.items)
  /\ LET f == OnSuccess(bg.ctxs, bg.b) IN
       bg' = [bg EXCEPT !.pc = "idle", !.ctxs = f.ctxs,
                        !.ret = [ctx |-> f.ctx, err |-> f.err]]
  /\ UNCHANGED <<expVars, nextID, pc, retpc, arg, tmp, snap, calls, rtVars, histVars,
                 harness, mw, wc, gl, spy>>

\* ------------------------------------------- server, handler and client
\* otelhttp.NewHandler(withCtxMW, "server", ...).ServeHTTP(rr, req): the server
\* instrumentation extracts the trace context of the headers, starts the server
\* span in it with the request's attributes, defers the span's End and calls
\* the middleware with the request rebound to that context
OtelHTTPServe(in, fn) ==
  /\ wc.pc = "idle"
  /\ wc.server = NilSpan
  /\ wc.served < MaxRequests
  /\ pc[1] = "idle"
  /\ LET s  == TracerStart(Extract(in.hdr), nextID, "server", "server",
                           [method |-> "GET", target |-> "/baz/bar/foo", scheme |-> "http",
                            host |-> "example.com"],
                           "otelhttp")
         st == NewRequest("GET", [scheme |-> "", host |-> "", path |-> "/baz/bar/foo"],
                          in.hdr, "", Context(s.sc, 0))
     IN /\ wc' = [IdleWC EXCEPT !.pc = "decide", !.fn = fn, !.st = st, !.r = 1, !.w = 1,
                                !.orig = Deref(st, 1), !.served = wc.served,
                                !.server = IF s.recording THEN s.span ELSE NilSpan]
        /\ nextID' = s.next
  /\ rt' = [rt EXCEPT ![1] = IdleRT]
  /\ UNCHANGED <<expVars, pc, retpc, arg, tmp, snap, calls, cfg, histVars, mw, bg, gl, spy,
                 harness>>

\* the handler compares the trace id the inbound headers were injected with to
\* the trace id of its context and to the value under ctxKey, then builds a
\* request with r.Context() and sends it through the client whose Transport is
\* the HTTPRoundTripper: c.Do(req) calls RoundTrip.  A failed t.Must.Equal ends
\* the goroutine (runtime.Goexit); the type assertion on a missing value panics
HandlerRoundTrip(p) ==
  /\ wc.pc = "handler"
  /\ pc[p] = "idle"
  /\ rt[p] = IdleRT
  /\ LET seen == wc.nextReqs[Len(wc.nextReqs)].seen.ctx
         tID  == Extract(wc.orig.header).tid
         req  == [method |-> "GET",
                  url |-> [scheme |-> "http", host |-> "127.0.0.1", path |-> "/foo/bar/baz"],
                  host |-> "127.0.0.1",
                  ctx |-> seen.sc]
     IN IF tID = 0 \/ seen.sc.tid # tID
          THEN /\ wc' = [wc EXCEPT !.pc = "unwound"]
               /\ UNCHANGED <<rt, pc, mw, bg, gl, spy>>
        ELSE IF seen.val = 0
          THEN /\ wc' = [wc EXCEPT !.pc = "panicked"]
               /\ UNCHANGED <<rt, pc, mw, bg, gl, spy>>
        ELSE IF seen.val # tID
          THEN /\ wc' = [wc EXCEPT !.pc = "unwound"]
               /\ UNCHANGED <<rt, pc, mw, bg, gl, spy>>
        ELSE /\ rt' = [rt EXCEPT ![p] =
                        [IdleRT EXCEPT !.req = req,
                                       !.st = NewRequest(req.method, req.url, EmptyHeader,
                                                         "", req.ctx),
                                       !.name = SpanName(cfg, req),
                                       !.nameFnCalls = IF cfg # "nil" THEN 1 ELSE 0]]
             /\ pc' = [pc EXCEPT ![p] = "rt_start"]
             /\ UNCHANGED mwVars
  /\ UNCHANGED <<expVars, nextID, retpc, arg, tmp, snap, calls, cfg, histVars, harness>>

\* c.Do returned: after t.Must.Nil(err) and t.Must.Equal(http.StatusTeapot,
\* resp.StatusCode) the handler writes its status code and returns; a panic of
\* the transport or a failed assertion unwinds the goroutine through the
\* handler and the middleware, and nothing is written
HandlerReturns(p) ==
  /\ rt[p].done
  /\ IF ~rt[p].result.panic /\ rt[p].result.err = "nil" /\ rt[p].result.resp = "418"
       THEN WithContextNextReturns("none")
       ELSE /\ wc.pc = "handler"
            /\ wc' = [wc EXCEPT !.pc = IF rt[p].result.panic THEN "panicked" ELSE "unwound"]
            /\ UNCHANGED <<goVars, mw>>

\* the server instrumentation's deferred span.End(), run when the middleware has
\* returned or the goroutine unwinds: the server span goes, through the simple
\* span processor, to the exporter the client span went to.  When the
\* middleware returned, the status code written is among the span's attributes
OtelHTTPSpanEnd(p) ==
  /\ wc.pc \in {"idle", "unwound", "panicked"}
  /\ wc.server # NilSpan
  /\ pc[p] = "idle"
  /\ wc' = [wc EXCEPT !.server = NilSpan]
  /\ arg' = [arg EXCEPT ![p] =
               SpanEnd(IF wc.pc = "idle"
                         THEN [wc.server EXCEPT !.attrs =
                                 [method |-> @.method, target |-> @.target,
                                  scheme |-> @.scheme, host |-> @.host,
                                  status |-> wc.rw.code]]
                         ELSE wc.server,
                       TRUE, FALSE, wc.pc = "panicked")]
  /\ retpc' = [retpc EXCEPT ![p] = "idle"]
  /\ called' = called \cup {wc.server.sid}
  /\ pc' = [pc EXCEPT ![p] = "es_lock"]
  /\ UNCHANGED <<expVars, nextID, tmp, snap, calls, rtVars, returned, snapInfo, hist,
                 mw, bg, gl, spy, harness>>

\* ------------------------------------------------------------------ Stub
\* the tracer providers a test can meet: otel's default (delegating) provider,
\* a provider the program installed itself, and the one Stub number i builds
DefaultProvider == [kind |-> "default", id |-> 0]
StubProvider(i) == [kind |-> "stub", id |-> i]

\* otel.SetTracerProvider(tp): the first call ever made hands tp to the default
\* provider as its delegate, when the default provider is still the global one;
\* every call stores tp as the global provider, except that the default
\* provider is not installed over itself
SetTracerProvider(g, tp) ==
  IF g.tp.kind = "default" /\ tp.kind = "default" THEN g
  ELSE [g EXCEPT !.tp = tp,
                 !.once = TRUE,
                 !.delegate = IF ~g.once /\ g.tp.kind = "default" THEN tp ELSE @]

RestoredProviderDefault(og) == DefaultProvider
\* the provider the registered cleanup installs:  otel.SetTracerProvider(ogTP)
RestoredProvider(og) == og

\* the state of the global provider before the test's first Stub call
GlobalStates ==
  { [tp |-> b, once |-> b.kind = "user",
     delegate |-> IF b.kind = "user" THEN b ELSE [kind |-> "none", id |-> 0],
     before |-> b, n |-> 0, cleanups |-> <<>>,
     exps |-> [i \in 1..MaxStubs |-> <<>>],
     seen |-> [i \in 1..MaxStubs |-> [kind |-> "none", id |-> 0]],
     restored |-> {}, log |-> {}] : b \in {DefaultProvider, [kind |-> "user", id |-> 0]} }

\* Stub(tb): remember the global provider, register the cleanup that restores
\* it, build a provider over a new FakeSpanExporter and install it
StubCall ==
  /\ gl.n < MaxStubs
  /\ LET i  == gl.n + 1
         og == gl.tp
         g  == [gl EXCEPT !.n = i,
                          !.cleanups = Append(@, [stub |-> i, og |-> og]),
                          !.seen[i] = gl.tp]
     IN gl' = SetTracerProvider(g, StubProvider(i))
  /\ UNCHANGED <<expVars, nextID, pc, retpc, arg, tmp, snap, calls, rtVars, histVars,
                 harness, mw, wc, bg, spy>>

\* the testing package runs the cleanups last registered first
StubCleanup ==
  /\ gl.cleanups # <<>>
  /\ LET c == gl.cleanups[Len(gl.cleanups)]
         g == SetTracerProvider([gl EXCEPT !.cleanups = SubSeq(@, 1, Len(@) - 1)],
                                RestoredProvider(c.og))
     IN gl' = [g EXCEPT !.restored = @ \cup {[stub |-> c.stub, now |-> g.tp]}]
  /\ UNCHANGED <<expVars, nextID, pc, retpc, arg, tmp, snap, calls, rtVars, histVars,
                 harness, mw, wc, bg, spy>>

\* the test starts a span with a tracer of otel.GetTracerProvider() and ends
\* it: the simple span processor hands it to the exporter e of that provider,
\* or of the default provider's delegate (0: the span reaches no Stub's exporter)
GlobalSpan ==
  /\ calls < MaxCalls
  /\ calls' = calls + 1
  /\ nextID' = nextID + 1
  /\ LET e == IF gl.tp.kind = "stub" THEN gl.tp.id
              ELSE IF gl.tp.kind = "default" /\ gl.delegate.kind = "stub" THEN gl.delegate.id
              ELSE 0
     IN
       gl' = [gl EXCEPT !.exps = IF e = 0 THEN @ ELSE [@ EXCEPT ![e] = Append(@, nextID)],
                        !.log = @ \cup {[sid |-> nextID,
                                         active |-> [k \in 1..Len(gl.cleanups) |->
                                                       gl.cleanups[k].stub]]}]
  /\ UNCHANGED <<expVars, pc, retpc, arg, tmp, snap, cfg, rt, histVars, harness, mw, wc, bg, spy>>

\* ------------------------------------------------------------------ Init
Init ==
  /\ harness \in {"exporter", "roundtripper", "middleware", "withcontext", "baggage", "highlevel", "shutdown",
                   "pretty", "stub", "faults", "notifyfaults", "spy", "liveness"}
  /\ heap = <<>>
  /\ spans = NilSlice
  /\ m = 0
  /\ nextID = 1
  /\ pc = [p \in Procs |-> "idle"]
  /\ retpc = [p \in Procs |-> "idle"]
  /\ arg = [p \in Procs |-> <<>>]
  /\ tmp = [p \in Procs |-> NilSlice]
  /\ snap = [p \in Procs |-> NilSlice]
  /\ calls = 0
  /\ cfg \in (IF harness \in {"roundtripper", "highlevel"} THEN SpanNameFns ELSE {"nil"})
  /\ rt = [p \in Procs |-> IdleRT]
  /\ mw = IdleMW
  /\ wc = IdleWC
  /\ bg = IdleBG
  /\ gl \in (IF harness = "stub" THEN GlobalStates
                                  ELSE {g \in GlobalStates : g.before = DefaultProvider})
  /\ spy \in (IF harness = "spy" THEN {NewSpy(in.hdr) : in \in InboundHeaders}
                                  ELSE {NewSpy(EmptyHeader)})
  /\ called = {}
  /\ returned = {}
  /\ snapInfo = [p \in Procs |-> [taken |-> FALSE, quiet |-> FALSE,
                                   passed |-> {}, view |-> <<>>]]
  /\ hist = [shut |-> FALSE, shutdownErrs |-> {}, shutdownKept |-> TRUE,
             exportErrs |-> {}, afterShutdown |-> {}, batches |-> {}, snaps |-> <<>>,
             pretty |-> [p \in Procs |-> [done |-> FALSE, present |-> <<>>,
                                          text |-> <<>>, after |-> <<>>,
                                          failed |-> FALSE]]]

\* ------------------------------------------------------- specifications
NextExporter ==
  \E p \in Procs :
    \/ \E n \in 0..MaxBatch : CallExportSpans(p, n)
    \/ ExportSpansLock(p)
    \/ ExportSpansRead(p)
    \/ ExportSpansWrite(p)
    \/ ExportSpansUnlock(p)
    \/ CallExportedSpans(p)
    \/ ExportedSpansLock(p)
    \/ ExportedSpansBuild(p)
    \/ ExportedSpansUnlock(p)

\* goroutines calling the exporter directly
InitExporter == Init /\ harness = "exporter"

SpecExporter == InitExporter /\ [][NextExporter]_vars

NextShutdown ==
  \E p \in Procs :
    \/ \E n \in 0..MaxBatch : CallExportSpans(p, n)
    \/ ExportSpansLock(p)
    \/ ExportSpansRead(p)
    \/ ExportSpansWrite(p)
    \/ ExportSpansUnlock(p)
    \/ Shutdown(p)

\* goroutines exporting to an exporter that is shut down at some point
InitShutdown == Init /\ harness = "shutdown"

SpecShutdown == InitShutdown /\ [][NextShutdown]_vars

NextPretty ==
  \E p \in Procs :
    \/ CallExportSpans(p, 1)
    \/ ExportSpansLock(p)
    \/ ExportSpansRead(p)
    \/ ExportSpansWrite(p)
    \/ ExportSpansUnlock(p)
    \/ CallExportedSpans(p)
    \/ ExportedSpansLock(p)
    \/ ExportedSpansBuild(p)
    \/ ExportedSpansUnlock(p)
    \/ CallPretty(p)
    \/ PrettyLock(p)
    \/ PrettyRender(p)
    \/ PrettyUnlock(p)

\* goroutines ending spans one at a time through the simple span processor,
\* taking snapshots and calling Pretty
InitPretty == Init /\ harness = "pretty"

SpecPretty == InitPretty /\ [][NextPretty]_vars

NextRoundTripper ==
  \E p \in Procs :
    \/ \E request \in {r \in Requests : r.parent # "traceonly"} :
         p \in Callers /\ RoundTripCall(p, request)
    \/ RoundTripStart(p)
    \/ RoundTripInject(p)
    \/ RoundTripNext(p)
    \/ \E out \in TransportOutcomes : RoundTripNextReturns(p, out)
    \/ RoundTripSpanEnd(p)
    \/ ExportSpansLock(p)
    \/ ExportSpansRead(p)
    \/ ExportSpansWrite(p)
    \/ ExportSpansUnlock(p)
    \/ RoundTripExit(p)

\* goroutines calling RoundTrip on one HTTPRoundTripper whose tracer exports to
\* the FakeSpanExporter
InitRoundTripper == Init /\ harness = "roundtripper"

SpecRoundTripper == InitRoundTripper /\ [][NextRoundTripper]_vars

NextRoundTripperFaults ==
  \E p \in Procs :
    \/ \E request \in {r \in Requests : r.parent # "remote"} :
         p \in Callers /\ RoundTripCall(p, request)
    \/ RoundTripStart(p)
    \/ RoundTripInject(p)
    \/ RoundTripInjectPanics(p)
    \/ RoundTripNext(p)
    \/ \E out \in TransportOutcomes : RoundTripNextReturns(p, out)
    \/ RoundTripSpanEnd(p)
    \/ ExportSpansLock(p)
    \/ ExportSpansRead(p)
    \/ ExportSpansWrite(p)
    \/ ExportSpansUnlock(p)
    \/ RoundTripExit(p)

\* goroutines calling RoundTrip on an HTTPRoundTripper whose propagator, like
\* its transport, may panic
InitRoundTripperFaults == Init /\ harness = "faults"

SpecRoundTripperFaults == InitRoundTripperFaults /\ [][NextRoundTripperFaults]_vars

\* a step inside an ExportSpans, ExportedSpans or Pretty call of goroutine p
ExporterStep(p) ==
  \/ ExportSpansLock(p)
  \/ ExportSpansRead(p)
  \/ ExportSpansWrite(p)
  \/ ExportSpansUnlock(p)
  \/ ExportedSpansLock(p)
  \/ ExportedSpansBuild(p)
  \/ ExportedSpansUnlock(p)
  \/ PrettyLock(p)
  \/ PrettyRender(p)
  \/ PrettyRenderFails(p)
  \/ PrettyUnlock(p)

NextExporterFair ==
  \E p \in Procs :
    \/ ExporterStep(p)
    \/ p \in Callers /\ CallPretty(p)
    \/ p \in Callers /\ CallExportedSpans(p)
    \/ \E request \in {r \in Requests : r.parent = "none"} :
         p \in Callers /\ RoundTripCall(p, request)
    \/ RoundTripStart(p)
    \/ RoundTripInject(p)
    \/ RoundTripNext(p)
    \/ \E out \in {o \in TransportOutcomes : o.err = "nil"} : RoundTripNextReturns(p, out)
    \/ RoundTripSpanEnd(p)
    \/ RoundTripExit(p)

\* goroutines calling RoundTrip, ExportedSpans and Pretty, whose rendering may
\* fail, on one exporter
InitExporterFair == Init /\ harness = "liveness"

\* the Go scheduler runs every runnable goroutine, and a goroutine waiting in
\* Lock gets the mutex once it stays free: each call in the exporter goes on
SpecExporterFair ==
  InitExporterFair /\ [][NextExporterFair]_vars /\ \A p \in Procs : WF_vars(ExporterStep(p))

NextNoTracingWarning ==
  \/ \E method \in Methods, url \in InboundURLs, ctx \in InboundContexts,
        in \in InboundHeaders, fn \in NotifyFns :
       ServeHTTPCall(method, url, ctx, in, fn)
  \/ ServeHTTPExtract
  \/ ServeHTTPNotify
  \/ NotifyFnReturns
  \/ ServeHTTPNext
  \/ \E e \in HandlerEffects : ServeHTTPNextReturns(e)

\* a server handing requests to HTTPMiddlewareNoTracingWarning
InitNoTracingWarning == Init /\ harness = "middleware"

SpecNoTracingWarning == InitNoTracingWarning /\ [][NextNoTracingWarning]_vars

NextNoTracingWarningFaults ==
  \/ NextNoTracingWarning
  \/ NotifyFnPanics

\* a server handing requests to a middleware whose NotifyFn may panic
InitNoTracingWarningFaults == Init /\ harness = "notifyfaults"

SpecNoTracingWarningFaults == InitNoTracingWarningFaults /\ [][NextNoTracingWarningFaults]_vars

NextSpy == \E key \in HeaderKeys : SpyGetCall(key)

\* a spyHeaderCarrier over the header map of an inbound request, queried
\* several times
InitSpy == Init /\ harness = "spy"

SpecSpy == InitSpy /\ [][NextSpy]_vars

NextWithContext ==
  \/ \E method \in Methods, url \in InboundURLs, ctx \in ServerContexts,
        hdr \in ServerHeaders, fn \in WithContextFns :
       WithContextCall(method, url, ctx, hdr, fn)
  \/ WithContextDecide
  \/ WithContextNext
  \/ \E e \in HandlerEffects : WithContextNextReturns(e)

\* a server handing requests to HTTPMiddlewareWithContext
InitWithContext == Init /\ harness = "withcontext"

SpecWithContext == InitWithContext /\ [][NextWithContext]_vars

NextBaggage ==
  \/ \E items \in ItemLists : BaggageCall(items)
  \/ BaggageItem
  \/ BaggageReturn

\* a caller handing its context through successive ContextWithBaggage calls
InitBaggage == Init /\ harness = "baggage"

SpecBaggage == InitBaggage /\ [][NextBaggage]_vars

NextHighLevel ==
  \/ \E in \in InboundHeaders, fn \in WithContextFns : OtelHTTPServe(in, fn)
  \/ WithContextDecide
  \/ WithContextNext
  \/ HandlerRoundTrip(1)
  \/ RoundTripStart(1)
  \/ RoundTripInject(1)
  \/ RoundTripNext(1)
  \* the client's transport: the outcomes of any transport, and the answer of
  \* nextMicroService, http.StatusTeapot
  \/ \E out \in TransportOutcomes \cup {[panic |-> FALSE, resp |-> "418", err |-> "nil"]} :
       RoundTripNextReturns(1, out)
  \/ RoundTripSpanEnd(1)
  \/ ExportSpansLock(1)
  \/ ExportSpansRead(1)
  \/ ExportSpansWrite(1)
  \/ ExportSpansUnlock(1)
  \/ RoundTripExit(1)
  \/ HandlerReturns(1)
  \/ OtelHTTPSpanEnd(1)

\* an instrumented server whose handler, behind HTTPMiddlewareWithContext,
\* calls a downstream server through HTTPRoundTripper
InitHighLevel == Init /\ harness = "highlevel"

SpecHighLevel == InitHighLevel /\ [][NextHighLevel]_vars

NextStub ==
  \/ StubCall
  \/ StubCleanup
  \/ GlobalSpan

\* a test that calls Stub, starts spans through the global provider and is
\* cleaned up
InitStub == Init /\ harness = "stub"

SpecStub == InitStub /\ [][NextStub]_vars

Next ==
  \/ harness = "exporter" /\ NextExporter
  \/ harness = "roundtripper" /\ NextRoundTripper
  \/ harness = "middleware" /\ NextNoTracingWarning
  \/ harness = "withcontext" /\ NextWithContext
  \/ harness = "baggage" /\ NextBaggage
  \/ harness = "highlevel" /\ NextHighLevel
  \/ harness = "shutdown" /\ NextShutdown
  \/ harness = "pretty" /\ NextPretty
  \/ harness = "stub" /\ NextStub
  \/ harness = "faults" /\ NextRoundTripperFaults
  \/ harness = "notifyfaults" /\ NextNoTracingWarningFaults
  \/ harness = "spy" /\ NextSpy
  \/ harness = "liveness" /\ NextExporterFair

Spec == Init /\ [][Next]_vars

\* ------------------------------------------------------------------ claims
\* C1: a snapshot that ExportedSpans builds once every ExportSpans call has
\* returned holds exactly the records handed to those calls: as many elements
\* as records were handed over, each record once, none missing.
C1_SnapshotHoldsEveryRecordOnce ==
  \A p \in Procs :
    (snapInfo[p].taken /\ snapInfo[p].quiet) =>
      /\ Len(View(heap, snap[p])) = Cardinality(snapInfo[p].passed)
      /\ SidsOf(View(heap, snap[p])) = snapInfo[p].passed

\* two goroutines' ExportSpans calls returned, then a snapshot was returned
C1_Witness ==
  \E p \in Procs :
    /\ pc[p] = "idle"
    /\ snapInfo[p].taken /\ snapInfo[p].quiet
    /\ Len(View(heap, snap[p])) > MaxBatch

\* C2: a snapshot returned by ExportedSpans keeps the length and contents it
\* had when it was returned, whatever ExportSpans calls complete afterwards,
\* and it shares no backing array with exp.spans.
C2_SnapshotIsolated ==
  \A p \in Procs :
    snapInfo[p].taken =>
      /\ View(heap, snap[p]) = snapInfo[p].view
      /\ ~(snap[p].arr # 0 /\ snap[p].arr = spans.arr)

\* a non-empty snapshot was returned and an ExportSpans call completed after it
C2_Witness ==
  \E p \in Procs :
    /\ pc[p] = "idle"
    /\ snapInfo[p].taken
    /\ Len(snapInfo[p].view) > 0
    /\ ExportInFlight = {}
    /\ spans.len > snap[p].len

\* the records of the exporter's sequence that carry span id sid
ExportedFor(sid) == SelectSeq(View(heap, spans), LAMBDA s : s.sid = sid)

\* C3: when RoundTrip exits after Tracer.Start returned, span.End() has been
\* called exactly once on the started span, whether the transport returned a
\* response, returned an error or panicked; End is never called twice.
C3_SpanEndedExactlyOnce ==
  \A p \in Procs :
    /\ rt[p].ends <= 1
    /\ (rt[p].done /\ rt[p].starts = 1) => (rt[p].ends = 1 /\ rt[p].ended)

\* one call exited by a panic of the transport, another by a returned error
C3_Witness ==
  \E p, q \in Procs :
    /\ rt[p].done /\ rt[p].starts = 1 /\ rt[p].out.panic
    /\ rt[q].done /\ rt[q].starts = 1 /\ ~rt[q].out.panic /\ rt[q].out.err # "nil"

\* C4 as stated: when the transport panics, the caller of RoundTrip gets the
\* panic (not an error value), gets it only after span.End() ran, and the
\* exporter then holds exactly one span of that call, whatever the context of
\* the request carries.
C4_PanicAlwaysLeavesOneSpan ==
  \A p \in Procs :
    (rt[p].done /\ rt[p].out.panic) =>
      /\ rt[p].result.panic
      /\ rt[p].result.err = "nil"
      /\ rt[p].ends = 1
      /\ Len(ExportedFor(rt[p].span.sid)) = 1

\* C4: when the transport panics, the caller of RoundTrip gets the panic (not
\* an error value), gets it only after span.End() ran, and the exporter then
\* holds exactly one span of that call when the started span is sampled, and
\* none when it is not.
C4_PanicReachesCallerAfterEnd ==
  \A p \in Procs :
    (rt[p].done /\ rt[p].out.panic) =>
      /\ rt[p].result.panic
      /\ rt[p].result.err = "nil"
      /\ rt[p].ends = 1
      /\ Len(ExportedFor(rt[p].span.sid)) = (IF rt[p].ctx.flags = 1 THEN 1 ELSE 0)

\* a call whose transport panicked under a sampled span has exited, and so has
\* one whose span was not sampled
C4_Witness ==
  \E p, q \in Procs :
    /\ rt[p].done /\ rt[p].out.panic /\ rt[p].nexts = 1 /\ rt[p].ctx.flags = 1
    /\ ExportedFor(rt[p].span.sid)[1].events = <<"exception">>
    /\ rt[q].done /\ rt[q].out.panic /\ rt[q].nexts = 1 /\ rt[q].ctx.flags = 0

\* C5: RoundTrip calls the wrapped transport exactly once and hands its
\* caller the very (response, error) pair the transport returned.
C5_TransportResultUnchanged ==
  \A p \in Procs :
    rt[p].done =>
      /\ rt[p].nexts = 1
      /\ ~rt[p].out.panic => rt[p].result = rt[p].out

\* a call returned a response together with a non-nil error
C5_Witness ==
  \E p \in Procs :
    rt[p].done /\ rt[p].result.err = "boom" /\ rt[p].result.resp = "200"

\* C6: when the request's context carries a valid trace context (T, S), the
\* headers the transport sees extract to a valid trace context with trace id T
\* and a span id that is not S: the id of the span RoundTrip started.
C6_OutboundHeadersCarryChildSpan ==
  \A p \in Procs :
    (rt[p].nexts = 1 /\ IsValid(rt[p].req.ctx)) =>
      LET sc == Extract(rt[p].sent.hdr) IN
        /\ IsValid(sc)
        /\ sc.tid = rt[p].req.ctx.tid
        /\ sc.sid # rt[p].req.ctx.sid
        /\ sc.sid = rt[p].span.sid

\* the transport saw a request whose context carried a remote parent with a
\* trace state, which the headers carry too, and one whose context carried a
\* local parent
C6_Witness ==
  \E p, q \in Procs :
    /\ rt[p].nexts = 1 /\ IsValid(rt[p].req.ctx) /\ rt[p].req.ctx.remote
    /\ HeaderGet(rt[p].sent.hdr, "tracestate") = rt[p].req.ctx.ts
    /\ rt[p].req.ctx.ts # NoValue
    /\ rt[q].nexts = 1 /\ IsValid(rt[q].req.ctx) /\ ~rt[q].req.ctx.remote

\* C7 as stated: every RoundTrip call whose transport returned leaves exactly
\* one span in the exporter.
C7_EveryCallExportsOneSpan ==
  \A p \in Procs :
    (rt[p].done /\ ~rt[p].out.panic) => Len(ExportedFor(rt[p].span.sid)) = 1

\* C7: a RoundTrip call whose transport returned and whose span is sampled
\* leaves exactly one span in the exporter, of kind client, with the request's
\* method, URL string, URL scheme and Host as attributes; a call whose span is
\* not sampled leaves none.
C7_OneClientSpanWithRequestAttributes ==
  \A p \in Procs :
    (rt[p].done /\ ~rt[p].out.panic) =>
      LET ex == ExportedFor(rt[p].span.sid) IN
        IF rt[p].ctx.flags = 1
          THEN /\ Len(ex) = 1
               /\ ex[1].kind = "client"
               /\ ex[1].attrs.method = rt[p].req.method
               /\ ex[1].attrs.url = URLString(rt[p].req.url)
               /\ ex[1].attrs.scheme = rt[p].req.url.scheme
               /\ ex[1].attrs.host = rt[p].req.host
          ELSE Len(ex) = 0

\* a call returned for a request whose Host differs from its URL's host and its
\* span was exported; another returned whose span was not sampled
C7_Witness ==
  \E p, q \in Procs :
    /\ rt[p].done /\ ~rt[p].out.panic
    /\ rt[p].req.host # rt[p].req.url.host
    /\ Len(ExportedFor(rt[p].span.sid)) = 1
    /\ rt[q].done /\ ~rt[q].out.panic /\ rt[q].ctx.flags = 0

\* C8: the started span is named SpanNameFn(request) when SpanNameFn is set
\* and "http-request" when it is nil; SpanNameFn is called at most once per
\* RoundTrip and never when nil.
C8_SpanNameFromFnOrDefault ==
  \A p \in Procs :
    rt[p].starts = 1 =>
      /\ cfg = "nil" => (rt[p].span.name = "http-request" /\ rt[p].nameFnCalls = 0)
      /\ cfg # "nil" => (rt[p].span.name = ApplySpanNameFn(cfg, rt[p].req)
                         /\ rt[p].nameFnCalls <= 1)

\* a span named by SpanNameFn was started and exported
C8_Witness ==
  \E p \in Procs :
    /\ rt[p].done /\ cfg = "byMethod" /\ rt[p].nameFnCalls = 1
    /\ rt[p].span.name = "send-span"
    /\ Len(ExportedFor(rt[p].span.sid)) = 1

\* C9: a request whose headers hold no traceparent, served by a middleware
\* with NotifyFn set, makes ServeHTTP call NotifyFn exactly once, and the
\* event's MissingHeaders contains "traceparent".
C9_MissingTraceparentNotifiedOnce ==
  (mw.pc = "idle" /\ mw.served > 0 /\ mw.fn # "nil" /\ mw.hdr0["Traceparent"] = NoValue) =>
    /\ Len(mw.events) = 1
    /\ \E i \in 1..Len(mw.events[1].missing) : mw.events[1].missing[i] = "traceparent"

\* a request without traceparent was served with NotifyFn set
C9_Witness ==
  /\ mw.pc = "idle" /\ mw.served > 0 /\ mw.fn = "log"
  /\ mw.src = "empty"
  /\ Len(mw.nextReqs) = 1

\* C10: a request whose traceparent header was injected from a valid trace
\* context with the configured propagator never makes ServeHTTP call NotifyFn.
C10_InjectedTraceparentNeverNotified ==
  mw.src = "injected" => mw.events = <<>>

\* such a request was served, with NotifyFn set, up to the call of Next
C10_Witness ==
  /\ mw.src = "injected" /\ mw.fn = "log" /\ mw.pc = "next"
  /\ IsValid(mw.sp) /\ mw.sp.flags = 0

\* the ServeHTTP call of HTTPMiddlewareNoTracingWarning has returned
ServeHTTPReturned == mw.pc = "idle" /\ mw.served > 0

\* C11: whether ServeHTTP warns is decided by the request's headers alone: with
\* NotifyFn set, NotifyFn is called exactly once when the headers do not
\* extract to a valid trace context and never otherwise, whatever the request's
\* context carries; a request whose context holds a valid span context from
\* Tracer.Start and whose headers hold no traceparent gets exactly one event
\* with "traceparent" among its MissingHeaders.
C11_WarningDecidedByHeadersOnly ==
  (ServeHTTPReturned /\ mw.fn # "nil") =>
    /\ Len(mw.events) = (IF IsValid(Extract(mw.hdr0)) THEN 0 ELSE 1)
    /\ (IsValid(mw.orig.ctx) /\ mw.hdr0["Traceparent"] = NoValue) =>
         /\ Len(mw.events) = 1
         /\ \E i \in 1..Len(mw.events[1].missing) : mw.events[1].missing[i] = "traceparent"

\* a request with a valid span context in its context and no trace headers was
\* served and one event was made
C11_Witness ==
  /\ ServeHTTPReturned /\ mw.fn = "log"
  /\ IsValid(mw.orig.ctx) /\ mw.src = "empty"
  /\ Len(mw.events) = 1

\* C12: when ServeHTTP returns, Next.ServeHTTP has been called exactly once,
\* with the request pointer and the response writer ServeHTTP was called with,
\* and the request then had the URL, method, headers, body and context it
\* arrived with; with NotifyFn nil no event was made.
C12_ForwardsOriginalRequestOnce ==
  /\ Len(mw.nextReqs) <= 1
  /\ ServeHTTPReturned =>
       /\ Len(mw.nextReqs) = 1
       /\ mw.nextReqs[1].r = mw.r
       /\ mw.nextReqs[1].w = mw.w
       /\ mw.nextReqs[1].seen = mw.orig
       /\ mw.nextReqs[1].written = <<>>
       /\ mw.fn = "nil" => mw.events = <<>>

\* a request without valid trace headers was served by a middleware whose
\* NotifyFn is nil
C12_Witness ==
  /\ ServeHTTPReturned /\ mw.fn = "nil"
  /\ ~IsValid(mw.sp)
  /\ Len(mw.nextReqs) = 1 /\ mw.rw.code = ExpectedResponseCode

\* C13: the request an event carries has the context, method, URL, headers and
\* body the live request had when NotifyFn was called, and keeps them whatever
\* the next handler does to the live request afterwards.
C13_EventRequestIndependent ==
  \A i \in 1..Len(mw.events) :
    LET d == Deref(mw.st, mw.events[i].req) IN
      /\ mw.events[i].req # mw.r
      /\ d.ctx = mw.events[i].at.ctx
      /\ d.method = mw.events[i].at.method
      /\ d.url = mw.events[i].at.url
      /\ d.header = mw.events[i].at.header
      /\ d.body = mw.events[i].at.body

\* the ServeHTTP call of HTTPMiddlewareWithContext has returned
WithContextReturned == wc.pc = "idle" /\ wc.served > 0

\* C14: WithContextFn is called exactly once, with the request's context and
\* that context's span context, when the span context is valid and
\* WithContextFn is set, and the next handler then gets the context it
\* returned; otherwise WithContextFn is not called and the next handler gets
\* the request's own context.
C14_WithContextFnIffValidAndConfigured ==
  WithContextReturned =>
    LET ctx == wc.orig.ctx IN
      IF IsValid(ctx.sc) /\ wc.fn # "nil"
        THEN /\ wc.fnCalls = << [ctx |-> ctx, sp |-> ctx.sc] >>
             /\ wc.nextReqs[1].seen.ctx = ApplyWithContextFn(wc.fn, ctx, ctx.sc)
        ELSE /\ wc.fnCalls = <<>>
             /\ wc.nextReqs[1].seen.ctx = ctx

\* a request whose context holds a span context with a zero span id was served
\* by a middleware with WithContextFn set
C14_Witness ==
  /\ WithContextReturned /\ wc.fn = "withTraceID"
  /\ wc.orig.ctx.sc.tid # 0 /\ ~IsValid(wc.orig.ctx.sc)
  /\ Len(wc.nextReqs) = 1

\* C15: for every request ServeHTTP calls Next.ServeHTTP exactly once, with
\* the response writer it was called with and a request that has the URL,
\* method, headers and body of the inbound one; nothing was written to the
\* response before the next handler got it.
C15_WithContextForwardsOnce ==
  /\ Len(wc.nextReqs) <= 1
  /\ WithContextReturned =>
       /\ Len(wc.nextReqs) = 1
       /\ wc.nextReqs[1].w = wc.w
       /\ wc.nextReqs[1].seen.url = wc.orig.url
       /\ wc.nextReqs[1].seen.method = wc.orig.method
       /\ wc.nextReqs[1].seen.header = wc.orig.header
       /\ wc.nextReqs[1].seen.body = wc.orig.body
       /\ wc.nextReqs[1].written = <<>>
       /\ wc.rw.writers = <<"next">>

\* a request with trace headers and a valid span context was served with
\* WithContextFn set, and the next handler wrote the status code
C15_Witness ==
  /\ WithContextReturned /\ wc.fn = "withTraceID"
  /\ IsValid(wc.orig.ctx.sc) /\ wc.orig.header # EmptyHeader
  /\ Len(wc.fnCalls) = 1 /\ wc.rw.code = ExpectedResponseCode

\* the ContextWithBaggage call has returned
BaggageReturned == bg.pc = "idle" /\ bg.calls > 0

\* C16: when some item fails (a function that returns an error, or a member
\* SetMember rejects), ContextWithBaggage returns the error of the first such
\* item and a nil context, it has processed no item after that one (no later
\* function was called), and no context holds the members added before it.
C16_FirstFailureAborts ==
  BaggageReturned =>
    LET Failing == {i \in 1..Len(bg.items) :
                      \/ bg.items[i].kind = "func" /\ bg.items[i].err # "nil"
                      \/ ~bg.items[i].member.hasData}
    IN IF Failing = {}
         THEN bg.ret.err = "nil"
         ELSE LET f == CHOOSE i \in Failing : \A j \in Failing : i <= j IN
                /\ bg.ret.err = (IF bg.items[f].kind = "func" /\ bg.items[f].err # "nil"
                                   THEN bg.items[f].err ELSE "errInvalidMember")
                /\ bg.ret.ctx = 0
                /\ bg.i = f
                /\ \A k \in 1..Len(bg.invoked) : bg.invoked[k] <= f
                /\ bg.ctxs = <<bg.in>>

\* a call whose second function failed after the first one's member was added,
\* with a third function left
C16_Witness ==
  /\ BaggageReturned /\ bg.ret.err = "expErr"
  /\ Len(bg.items) = 3 /\ bg.invoked = <<1, 2>>
  /\ bg.b # bg.in

\* C17 as stated: on success the returned context's baggage holds every member
\* of the input context's baggage and every given member, and the input
\* context's baggage is unchanged.
C17_SuccessHoldsEveryMember ==
  (BaggageReturned /\ bg.ret.err = "nil") =>
    /\ bg.ret.ctx \notin {0, 1}
    /\ bg.in \subseteq bg.ctxs[bg.ret.ctx]
    /\ \A i \in 1..Len(bg.items) :
         [key |-> bg.items[i].member.key, value |-> bg.items[i].member.value]
           \in bg.ctxs[bg.ret.ctx]
    /\ bg.ctxs[1] = bg.in

\* C17, amended: on success the returned context is a new context whose
\* baggage holds every given member whose key is not given again later and
\* every member of the input context's baggage whose key is not given, and
\* the input context's baggage is unchanged.
C17_SuccessMergesByKey ==
  (BaggageReturned /\ bg.ret.err = "nil") =>
    /\ bg.ret.ctx \notin {0, 1}
    /\ \A x \in bg.in :
         (\A i \in 1..Len(bg.items) : bg.items[i].member.key # x.key)
           => x \in bg.ctxs[bg.ret.ctx]
    /\ \A i \in 1..Len(bg.items) :
         (\A j \in (i + 1)..Len(bg.items) : bg.items[j].member.key # bg.items[i].member.key)
           => [key |-> bg.items[i].member.key, value |-> bg.items[i].member.value]
                \in bg.ctxs[bg.ret.ctx]
    /\ bg.ctxs[1] = bg.in

\* two calls one after the other, each adding one member: both are in the
\* baggage of the context the second call returned
C17_Witness ==
  /\ BaggageReturned /\ bg.ret.err = "nil" /\ bg.calls = 2
  /\ Len(bg.items) = 1 /\ bg.items[1].kind = "func"
  /\ bg.in = {[key |-> "k1", value |-> "a"]}
  /\ bg.ctxs[bg.ret.ctx] = {[key |-> "k1", value |-> "a"], [key |-> "k2", value |-> "b"]}

\* C18: when the inbound request's traceparent encodes a valid trace context
\* with trace id T, the handler behind the server instrumentation and
\* HTTPMiddlewareWithContext sees T in its context (and under the key
\* WithContextFn wrote), and the traceparent the downstream server receives from
\* the handler's call through HTTPRoundTripper carries T and a span id that is
\* not the server span's.
C18_TraceIDReachesDownstream ==
  (wc.pc = "handler" /\ IsValid(Extract(wc.orig.header))) =>
    LET T      == Extract(wc.orig.header).tid
        seen   == wc.nextReqs[1].seen.ctx
        server == wc.orig.ctx.sc
    IN /\ seen.sc.tid = T
       /\ wc.fn # "nil" => seen.val = T
       /\ rt[1].nexts = 1 =>
            LET got == Extract(rt[1].sent.hdr) IN
              /\ IsValid(got)
              /\ got.tid = T
              /\ got.sid # server.sid
              /\ got.sid # Extract(wc.orig.header).sid

\* the downstream server answered the call the handler made for an inbound
\* request with a valid traceparent, and the client span was exported
C18_Witness ==
  /\ wc.pc = "handler" /\ wc.fn = "withTraceID"
  /\ IsValid(Extract(wc.orig.header))
  /\ rt[1].done /\ rt[1].result.resp = "418" /\ rt[1].result.err = "nil"
  /\ Len(ExportedFor(rt[1].span.sid)) = 1

\* C19: every ExportSpans call that returned has returned nil; every Shutdown
\* call has returned nil and left exp.spans as it was; the spans of ExportSpans
\* calls made after a Shutdown are in exp.spans once the call has returned.
C19_ExportAndShutdownNeverFail ==
  /\ hist.exportErrs \subseteq {"nil"}
  /\ hist.shutdownErrs \subseteq {"nil"}
  /\ hist.shutdownKept
  /\ \A sid \in returned \cap hist.afterShutdown : Len(ExportedFor(sid)) = 1

\* spans were exported, Shutdown was called, and more spans were exported by a
\* call made after it; an ExportSpans call with no spans returned too
C19_Witness ==
  /\ hist.shut /\ hist.shutdownErrs = {"nil"} /\ hist.exportErrs = {"nil"}
  /\ returned \cap hist.afterShutdown # {}
  /\ returned \ hist.afterShutdown # {}
  /\ ExportInFlight = {}

\* C20: at most one goroutine is between Lock and Unlock of exp.m in
\* ExportSpans, ExportedSpans and Pretty; the text Pretty returns renders
\* exactly the spans exp.spans held when Pretty got the mutex, and exp.spans
\* still holds exactly those when Pretty releases it.
C20_PrettyUnderTheExporterMutex ==
  /\ Cardinality(InCriticalSection) <= 1
  /\ \A p \in Procs :
       /\ pc[p] \in {"pp_render", "pp_unlock"} => m = p
       /\ pc[p] = "pp_unlock" =>
            /\ hist.pretty[p].text = PrettyText(hist.pretty[p].present)
            /\ View(heap, spans) = hist.pretty[p].present
       /\ hist.pretty[p].done =>
            /\ hist.pretty[p].text = PrettyText(hist.pretty[p].present)
            /\ hist.pretty[p].after = hist.pretty[p].present

\* Pretty returned a text of at least one span while another goroutine's
\* ExportSpans call was waiting for the mutex or had just extended exp.spans
C20_Witness ==
  \E p, q \in Procs :
    /\ p # q
    /\ hist.pretty[p].done /\ Len(hist.pretty[p].text) > 0
    /\ pc[p] = "idle"
    /\ pc[q] = "es_unlock"
    /\ spans.len > Len(hist.pretty[p].present)

\* C21 as stated: a span started and ended through the global provider between
\* a Stub call and its cleanup is in that Stub's exporter, whatever later Stub
\* calls are installed meanwhile; cleanups restore what the Stub call found.
C21_EveryActiveStubRecords ==
  /\ \A s \in gl.log : \A k \in 1..Len(s.active) :
       \E j \in 1..Len(gl.exps[s.active[k]]) : gl.exps[s.active[k]][j] = s.sid
  /\ \A r \in gl.restored : r.now = gl.seen[r.stub]
  /\ (gl.n > 0 /\ gl.cleanups = <<>>) => gl.tp = gl.before

\* C21: a span started and ended through the global provider while a Stub's
\* provider is the last one installed is recorded in that Stub's exporter; each
\* cleanup restores the provider its Stub call found, and once every cleanup
\* has run the global provider is the one present before the first Stub call.
C21_InnermostStubRecords ==
  /\ \A s \in gl.log : s.active # <<>> =>
       \E j \in 1..Len(gl.exps[s.active[Len(s.active)]]) :
          gl.exps[s.active[Len(s.active)]][j] = s.sid
  /\ \A r \in gl.restored : r.now = gl.seen[r.stub]
  /\ (gl.n > 0 /\ gl.cleanups = <<>>) => gl.tp = gl.before

C21_Witness ==
  /\ gl.n = 2
  /\ gl.cleanups = <<>>
  /\ gl.before = [kind |-> "user", id |-> 0]
  /\ gl.tp = [kind |-> "user", id |-> 0]
  /\ \E s \in gl.log : Len(s.active) = 2
  /\ \E s \in gl.log : Len(s.active) = 1
  /\ Len(gl.exps[1]) > 0 /\ Len(gl.exps[2]) > 0

\* C22: the exporter's sequence is append-only: every snapshot ExportedSpans
\* returned is a prefix of every snapshot returned later and of the sequence
\* held now, and the records of every ExportSpans call that returned stand in
\* the sequence contiguously and in the order given.
C22_AppendOnly ==
  LET held == View(heap, spans) IN
  /\ \A j \in 1..Len(hist.snaps) :
       /\ Len(hist.snaps[j]) <= Len(held)
       /\ SubSeq(held, 1, Len(hist.snaps[j])) = hist.snaps[j]
       /\ \A i \in 1..(j - 1) :
            /\ Len(hist.snaps[i]) <= Len(hist.snaps[j])
            /\ SubSeq(hist.snaps[j], 1, Len(hist.snaps[i])) = hist.snaps[i]
  /\ \A b \in hist.batches :
       \E k \in 0..(Len(held) - Len(b)) : SubSeq(held, k + 1, k + Len(b)) = b

C22_Witness ==
  /\ \E j \in 1..Len(hist.snaps) :
       hist.snaps[j] # <<>> /\ Len(hist.snaps[j]) < Len(View(heap, spans))
  /\ \E b \in hist.batches : Len(b) = 2
  /\ ExportInFlight = {}

\* C23: within one RoundTrip call Inject is called after Tracer.Start,
\* Next.RoundTrip only after Inject wrote the started span's trace headers, and
\* span.End only after Next.RoundTrip returned or panicked or after Inject
\* panicked; a call that started a span does not exit before the span ended.
C23_StartInjectNextEnd ==
  [][\A p \in Procs :
       /\ rt'[p].injects > rt[p].injects =>
            rt[p].starts = 1 /\ rt[p].nexts = 0 /\ rt[p].ends = 0
       /\ rt'[p].nexts > rt[p].nexts =>
            /\ rt[p].starts = 1 /\ rt[p].injects = 1 /\ rt[p].ends = 0
            /\ HeaderGet(rt[p].hdr, "traceparent") = FormatTraceparent(rt[p].ctx)
            /\ rt[p].ctx.sid = rt[p].span.sid
       /\ rt'[p].ends > rt[p].ends =>
            /\ rt[p].starts = 1 /\ rt[p].injects = 1
            /\ (rt[p].nexts = 1 /\ rt[p].out # NoOutcome) \/ rt[p].out.panic
       /\ (rt'[p].done /\ ~rt[p].done) =>
            (rt[p].starts = 1 /\ rt[p].ends = 1 /\ rt[p].ended
             /\ (rt[p].ctx.flags = 1 => Len(ExportedFor(rt[p].span.sid)) = 1))]_vars

\* one call exited with the panic of Inject, never having reached the
\* transport, another with the panic of the transport; both spans were ended
C23_Witness ==
  \E p, q \in Procs :
    /\ rt[p].done /\ rt[p].result.panic /\ rt[p].injects = 1 /\ rt[p].nexts = 0
    /\ rt[p].ends = 1 /\ Len(ExportedFor(rt[p].span.sid)) = 1
    /\ rt[q].done /\ rt[q].result.panic /\ rt[q].nexts = 1 /\ rt[q].ends = 1

\* C24: when NotifyFn panics, ServeHTTP is left at once with the panic: the
\* next handler is not invoked for that request, nothing is written to the
\* response, and NotifyFn is not called again.
C24_NotifyFnPanicPropagates ==
  mw.panicked =>
    /\ mw.pc = "idle"
    /\ mw.nextReqs = <<>>
    /\ mw.rw = NewRecorder
    /\ Len(mw.events) = 1 /\ mw.returns = 0

\* the second request served met a panic of NotifyFn
C24_Witness ==
  mw.panicked /\ mw.pc = "idle" /\ mw.served = 2 /\ mw.events # <<>>

\* C26: the next handler is entered only when every NotifyFn invocation of the
\* ServeHTTP call has returned, and one ServeHTTP call invokes NotifyFn at
\* most once.
C26_NotifyReturnsBeforeNext ==
  [][/\ Len(mw'.nextReqs) > Len(mw.nextReqs) => mw.returns = Len(mw.events)
     /\ Len(mw'.events) <= 1
     /\ mw'.returns <= Len(mw'.events)]_vars

\* the next handler runs for a request NotifyFn was invoked for, and returned
C26_Witness ==
  mw.pc = "handler" /\ Len(mw.events) = 1 /\ mw.returns = 1 /\ Len(mw.nextReqs) = 1

\* C25: after any sequence of Get calls MissingHeaders is exactly the queried
\* keys whose lookup in the wrapped carrier was empty, in query order and with
\* repetitions, and every Get returned the wrapped carrier's value.
C25_MissingHeadersLogsEmptyLookups ==
  LET absent[n \in 0..Len(spy.gets)] ==
        IF n = 0 THEN <<>>
        ELSE IF spy.carrier[CanonicalKey(spy.gets[n].key)] = NoValue
               THEN Append(absent[n - 1], spy.gets[n].key)
               ELSE absent[n - 1]
  IN /\ spy.missing = absent[Len(spy.gets)]
     /\ \A i \in 1..Len(spy.gets) :
          spy.gets[i].value = spy.carrier[CanonicalKey(spy.gets[i].key)]

\* an absent key was queried twice around a query of a key that is present
C25_Witness ==
  /\ Len(spy.gets) = 3
  /\ spy.gets[1].key = "Tracestate" /\ spy.gets[3].key = "Tracestate"
  /\ spy.gets[2].key = "traceparent" /\ spy.gets[2].value # NoValue
  /\ spy.missing = <<"Tracestate", "Tracestate">>

\* C27 as stated: once every RoundTrip call made on the one HTTPRoundTripper
\* has exited, by return or by panic, the exporter holds exactly one span per
\* call made: as many records as calls.
C27_OneSpanPerCall ==
  (\A p \in Procs : pc[p] = "idle") => Len(View(heap, spans)) = calls

\* C27: once every RoundTrip call made on the one HTTPRoundTripper has exited,
\* by return or by panic, the exporter holds exactly one span per call whose
\* span was sampled and none for the others: as many records as sampled spans
\* were ended, no span id twice, and the span of each goroutine's last call
\* once when it was sampled.
C27_OneSpanPerConcurrentCall ==
  (\A p \in Procs : pc[p] = "idle") =>
    /\ Len(View(heap, spans)) = Cardinality(called)
    /\ Cardinality(SidsOf(View(heap, spans))) = Cardinality(called)
    /\ Cardinality(called) <= calls
    /\ \A p \in Procs :
         rt[p].done =>
           /\ rt[p].span.sid \in called <=> rt[p].ctx.flags = 1
           /\ Len(ExportedFor(rt[p].span.sid)) = (IF rt[p].ctx.flags = 1 THEN 1 ELSE 0)

\* two calls that ran at the same time have both exited, one of them by panic:
\* the span started first was exported last
C27_Witness ==
  /\ \A p \in Procs : pc[p] = "idle"
  /\ calls = 2
  /\ \E p, q \in Procs :
       /\ p # q
       /\ rt[p].done /\ rt[p].result.panic
       /\ rt[q].done /\ ~rt[q].result.panic
       /\ rt[p].span.sid < rt[q].span.sid
       /\ \E i, j \in 1..spans.len :
            /\ i < j
            /\ View(heap, spans)[i].sid = rt[q].span.sid
            /\ View(heap, spans)[j].sid = rt[p].span.sid

\* C28: the exporter's mutex is held only by a goroutine between the Lock and
\* the Unlock of an ExportSpans, ExportedSpans or Pretty call, never by one
\* that is elsewhere (idle, or in RoundTrip around the transport call), also
\* after a rendering of Pretty failed; and every ExportSpans, ExportedSpans
\* and Pretty call that was started completes.
C28_MutexReleasedAndCallsComplete ==
  /\ [](/\ InCriticalSection = (IF m = 0 THEN {} ELSE {m})
        /\ \A p \in Procs : pc[p] \in {"idle", "rt_start", "rt_inject", "rt_next",
                                       "rt_wait", "rt_end", "rt_exit"} => m # p)
  /\ \A p \in Procs :
       (pc[p] \in {"es_lock", "es_read", "es_write", "es_unlock", "xs_lock", "xs_copy",
                   "xs_unlock", "pp_lock", "pp_render", "pp_unlock"})
         ~> (pc[p] \in {"idle", "rt_exit"})

\* a Pretty call whose rendering failed has returned, and another goroutine,
\* exporting the span of its RoundTrip call, holds the mutex after it
C28_Witness ==
  \E p, q \in Procs :
    /\ p # q
    /\ hist.pretty[p].failed /\ hist.pretty[p].done /\ pc[p] = "idle"
    /\ m = q /\ pc[q] = "es_write" /\ rt[q].nexts = 1

\* C29: the request handed to the transport is another request struct that
\* differs from the caller's in its context only: same method, same URL, same
\* body and the very same header map; the trace headers of the started span
\* are in the caller's own header map, and the caller's request keeps its
\* context, method, URL and unread body during and after RoundTrip.
C29_OnlyTheContextDiffers ==
  \A p \in Procs :
    rt[p].nexts = 1 =>
      LET st == rt[p].st
          c  == st.reqs[1]
          t  == st.reqs[rt[p].sentr]
      IN /\ rt[p].sentr # 1
         /\ t.method = c.method /\ t.url = c.url /\ t.body = c.body
         /\ t.header = c.header
         /\ t.ctx = rt[p].ctx /\ t.ctx # c.ctx
         /\ c.ctx = rt[p].req.ctx
         /\ Deref(st, 1).method = rt[p].req.method
         /\ Deref(st, 1).url = rt[p].req.url
         /\ Deref(st, 1).body = BodyOf("payload")
         /\ HeaderGet(Deref(st, 1).header, "traceparent") = FormatTraceparent(rt[p].ctx)
         /\ rt[p].ctx.sid = rt[p].span.sid

\* RoundTrip returned for a request whose context carried a span and whose
\* header map already held another traceparent value
C29_Witness ==
  \E p \in Procs :
    /\ rt[p].done /\ rt[p].nexts = 1 /\ ~rt[p].result.panic
    /\ IsValid(rt[p].req.ctx)
    /\ HeaderGet(Deref(rt[p].st, 1).header, "traceparent") # StaleTraceparent
    /\ rt[p].st.reqs[1].ctx = rt[p].req.ctx

====
